---- MODULE Spec2Model ----
(***************************************************************************)
(* fintrack: CSV import, duplicate reconciliation and rule-then-AI         *)
(* categorization (backend/app).                                           *)
(*                                                                         *)
(* Text is a sequence of one-character strings.  Amounts are integers in   *)
(* thousandths of the currency unit, so that a Decimal with three fraction *)
(* digits and its Numeric(10,2) stored value can both be written.          *)
(* category_id = NoCategory stands for SQL NULL / Python None.             *)
(***************************************************************************)
EXTENDS Integers, Sequences, FiniteSets, TLC

VARIABLES
    txs,      \* table transactions, committed rows; the row at index i has id i
    sess,     \* the request's Session: id -> attribute values not yet committed
    rules,    \* table rules; the row at index i has id i (creation order)
    apiKey,   \* settings.OPENAI_API_KEY is set
    batch,    \* the categorize_batch call in progress, or the last one
    uploads,  \* the upload requests made so far, oldest first
    csv,      \* a call of parse_csv_file or parse_date: its argument and result
    req,      \* the last request to create, update or categorize, and its answer
    inflight  \* upload requests that run concurrently, each with its Session

vars == <<txs, sess, rules, apiKey, batch, uploads, csv, req, inflight>>

----------------------------------------------------------------------------
(* Bounds of the model *)

MaxRules == 2       \* rows of table rules
MaxBatch == 2       \* ids in one direct categorize_batch call
MaxRows == 2        \* records parsed from one uploaded file
MaxUploads == 2     \* upload requests in one behaviour
MaxErrorRows == 6   \* data lines of a file in which every line fails
MaxColumns == 4     \* columns of a file whose header line varies
MaxRequests == 2    \* requests in a behaviour of all kinds of requests
MaxListed == 1      \* ids listed in one categorize request
MaxInflight == 2    \* upload requests in a behaviour of concurrent requests

----------------------------------------------------------------------------
(* Data *)

NoCategory == 0

Users == {1, 2}

Accounts == { [id |-> 1, user_id |-> 1], [id |-> 2, user_id |-> 2] }

\* The repetition {4294967296} in a regular expression: sre_parse raises
\* OverflowError for it, which is not an re.error.
RepeatMax == "{4294967296}"

UpperCase ==
    << "A", "B", "C", "D", "E", "F", "G", "H", "I", "J", "K", "L", "M",
       "N", "O", "P", "Q", "R", "S", "T", "U", "V", "W", "X", "Y", "Z" >>

LowerCase ==
    << "a", "b", "c", "d", "e", "f", "g", "h", "i", "j", "k", "l", "m",
       "n", "o", "p", "q", "r", "s", "t", "u", "v", "w", "x", "y", "z" >>

\* str.lower() of one character.
Lower(c) ==
    IF \E i \in DOMAIN UpperCase : UpperCase[i] = c
    THEN LowerCase[CHOOSE i \in DOMAIN UpperCase : UpperCase[i] = c]
    ELSE c

LowerStr(s) == [i \in 1..Len(s) |-> Lower(s[i])]

Categories ==
    << [id |-> 1, name |-> <<"F", "o">>],
       [id |-> 2, name |-> <<"O">>] >>

CategoryIds == {Categories[i].id : i \in DOMAIN Categories}

PatternTypes == {"contains", "starts_with", "exact", "regex"}

----------------------------------------------------------------------------
(* Text predicates *)

StartsWith(text, p) ==
    /\ Len(p) <= Len(text)
    /\ \A i \in 1..Len(p) : text[i] = p[i]

Contains(text, p) ==
    \E k \in 0..(Len(text) - Len(p)) :
        \A i \in 1..Len(p) : text[k + i] = p[i]

\* re.compile(pattern): "overflow" when the parser meets a repetition count
\* >= MAXREPEAT, "error" (re.error) for an unterminated group, else "ok".
RegexCompile(p) ==
    IF \E i \in 1..Len(p) : p[i] = RepeatMax THEN "overflow"
    ELSE IF \E i \in 1..Len(p) : p[i] = "(" THEN "error"
    ELSE "ok"

\* matches_pattern: "match", "no", or "raise" when an exception leaves it.
MatchesPattern(text, pattern, pattern_type) ==
    LET text_lower == LowerStr(text)
        pattern_lower == LowerStr(pattern)
        yes(b) == IF b THEN "match" ELSE "no"
    IN  CASE pattern_type = "contains" -> yes(Contains(text_lower, pattern_lower))
          [] pattern_type = "starts_with" -> yes(StartsWith(text_lower, pattern_lower))
          [] pattern_type = "exact" -> yes(text_lower = pattern_lower)
          [] pattern_type = "regex" ->
                CASE RegexCompile(pattern) = "overflow" -> "raise"
                  [] RegexCompile(pattern) = "error" -> "no"
                  [] OTHER -> yes(Contains(text_lower, pattern_lower))
          [] OTHER -> "no"

\* Category.name.ilike(pat): % is any run of characters, _ any one character,
\* every other character matches itself without regard to case.
RECURSIVE Like(_, _)
Like(pat, s) ==
    IF pat = <<>> THEN s = <<>>
    ELSE IF Head(pat) = "%"
         THEN \E k \in 0..Len(s) : Like(Tail(pat), SubSeq(s, k + 1, Len(s)))
    ELSE IF s = <<>> THEN FALSE
    ELSE /\ (Head(pat) = "_" \/ Lower(Head(pat)) = Lower(Head(s)))
         /\ Like(Tail(pat), Tail(s))

----------------------------------------------------------------------------
(* Rules *)

Rule(u, c, p, t, pr, act) ==
    [user_id |-> u, category_id |-> c, pattern |-> p, pattern_type |-> t,
     priority |-> pr, is_active |-> act]

RuleUniverse ==
    { Rule(1, 1, <<"a">>, "contains", 0, TRUE),
      Rule(1, 2, <<"B">>, "starts_with", 2, TRUE),
      Rule(1, 1, <<"b">>, "regex", 2, TRUE),
      Rule(1, 2, <<"(", "a">>, "regex", 3, TRUE),
      Rule(1, 2, <<"a", RepeatMax>>, "regex", 1, TRUE),
      Rule(1, 2, <<"a", "b">>, "exact", 3, FALSE),
      Rule(2, 2, <<"a">>, "contains", 3, TRUE) }

SeqsUpTo(S, n) == UNION { [1..k -> S] : k \in 0..n }

RuleTables == SeqsUpTo(RuleUniverse, MaxRules)

\* Variant: the query without its filter.
AllRules(tbl, uid) == DOMAIN tbl

\* The rows the query of categorize_transaction selects.
ActiveRules(tbl, uid) ==
    {i \in DOMAIN tbl : tbl[i].user_id = uid /\ tbl[i].is_active}

Orderings(S) ==
    {o \in [1..Cardinality(S) -> S] : \A i, j \in DOMAIN o : i # j => o[i] # o[j]}

\* Mutant: the query without its order_by, the rows in the order of their ids.
OrderedRulesById(tbl, uid) ==
    {o \in Orderings(ActiveRules(tbl, uid)) :
        \A i, j \in DOMAIN o : i < j => o[i] < o[j]}

\* .order_by(Rule.priority.desc()).all(): every sequence of the selected rows
\* in which priority never increases; rows of equal priority come in the order
\* the database happens to return them.
OrderedRules(tbl, uid) ==
    {o \in Orderings(ActiveRules(tbl, uid)) :
        \A i, j \in DOMAIN o : i < j => tbl[o[i]].priority >= tbl[o[j]].priority}

CategoryExists(cid) == cid \in CategoryIds

\* The loop over the rules: the first rule whose pattern matches and whose
\* category exists decides; an exception from matches_pattern leaves the loop.
RECURSIVE RuleStep(_, _, _, _)
RuleStep(description, tbl, order, i) ==
    IF i > Len(order)
    THEN [outcome |-> "none", category_id |-> NoCategory, rule_id |-> 0]
    ELSE LET rule == tbl[order[i]]
             m == MatchesPattern(description, rule.pattern, rule.pattern_type)
         IN  IF m = "raise"
             THEN [outcome |-> "raise", category_id |-> NoCategory, rule_id |-> order[i]]
             ELSE IF m = "match" /\ CategoryExists(rule.category_id)
             THEN [outcome |-> "rule", category_id |-> rule.category_id,
                   rule_id |-> order[i]]
             ELSE RuleStep(description, tbl, order, i + 1)

----------------------------------------------------------------------------
(* The AI capability *)

AITexts == { <<"o">>, <<"x">> }

\* What llm(messages) does: raises, or answers with a text.
AIOutcomes ==
    {[kind |-> "raise", text |-> <<>>]} \cup {[kind |-> "text", text |-> t] : t \in AITexts}

\* categorize_with_ai: the category ids it can return (NoCategory for None).
\* .first() without an ORDER BY returns any of the rows that match.
CategorizeWithAI(key, ai) ==
    IF ~key THEN {NoCategory}
    ELSE IF Len(Categories) = 0 THEN {NoCategory}
    ELSE IF ai.kind = "raise" THEN {NoCategory}
    ELSE LET found == {Categories[i].id : i \in
                         {j \in DOMAIN Categories :
                             Like(<<"%">> \o ai.text \o <<"%">>, Categories[j].name)}}
         IN  IF found = {} THEN {NoCategory} ELSE found

----------------------------------------------------------------------------
(* The Session *)

NoSession == <<>>

\* The object a query returns: the Session's copy when it holds one.
Load(db, s, id) == IF id \in DOMAIN s THEN s[id] ELSE db[id]

\* db.commit() for modified rows.
Commit(db, s) == [i \in DOMAIN db |-> IF i \in DOMAIN s THEN s[i] ELSE db[i]]

\* Mutant: the assignment without db.commit().
AssignCategoryNoCommit(db, s, id, cid) ==
    LET t == Load(db, s, id)
        s1 == (id :> [t EXCEPT !.category_id = cid, !.is_categorized = TRUE]) @@ s
    IN  [db |-> db, sess |-> s1]

\* transaction.category_id = category.id; transaction.is_categorized = True;
\* db.commit()
AssignCategory(db, s, id, cid) ==
    LET t == Load(db, s, id)
        s1 == (id :> [t EXCEPT !.category_id = cid, !.is_categorized = TRUE]) @@ s
    IN  [db |-> Commit(db, s1), sess |-> NoSession]

\* categorize_transaction(transaction, db, use_ai), where order is the result
\* of the rules query, ai what the LLM does if called, and pick the row
\* .first() returns.
CategorizeTransaction(db, s, id, order, use_ai, ai, pick) ==
    LET t == Load(db, s, id)
        rs == RuleStep(t.description, rules, order, 1)
        same == [db |-> db, sess |-> s]
    IN  IF rs.outcome = "raise"
        THEN [st |-> same, outcome |-> "raise", category_id |-> NoCategory,
              rule_id |-> rs.rule_id, ai_invoked |-> FALSE]
        ELSE IF rs.outcome = "rule"
        THEN [st |-> AssignCategory(db, s, id, rs.category_id), outcome |-> "rule",
              category_id |-> rs.category_id, rule_id |-> rs.rule_id,
              ai_invoked |-> FALSE]
        ELSE IF use_ai /\ pick # NoCategory
        THEN [st |-> AssignCategory(db, s, id, pick), outcome |-> "ai",
              category_id |-> pick, rule_id |-> 0, ai_invoked |-> TRUE]
        ELSE [st |-> same, outcome |-> "none", category_id |-> NoCategory,
              rule_id |-> 0, ai_invoked |-> use_ai]

----------------------------------------------------------------------------
(* categorize_batch *)

FormatError(trans_id, e) == <<"Transaction ", trans_id, ": ", e>>

NoBatch ==
    [status |-> "idle", origin |-> "none", ids |-> <<>>, pos |-> 1, use_ai |-> FALSE,
     categorized |-> 0, uncategorized |-> 0, errors |-> <<>>, log |-> <<>>,
     calls |-> 0]

\* The call: the counters and the error list start empty.  A call with no
\* ids returns at once.
StartBatch(b, ids, use_ai, origin) ==
    [status |-> IF Len(ids) = 0 THEN "done" ELSE "running",
     origin |-> origin, ids |-> ids, pos |-> 1, use_ai |-> use_ai,
     categorized |-> 0, uncategorized |-> 0, errors |-> <<>>, log |-> <<>>,
     calls |-> b.calls + 1]

\* What one pass of the loop body found for trans_id.
LogEntry(trans_id, r) ==
    [id |-> trans_id, outcome |-> r.outcome, category_id |-> r.category_id,
     rule_id |-> r.rule_id, ai_invoked |-> r.ai_invoked]

SkipEntry(trans_id) ==
    [id |-> trans_id, outcome |-> "skip", category_id |-> NoCategory,
     rule_id |-> 0, ai_invoked |-> FALSE]

\* Mutant: the exception ends the loop instead of being followed by the
\* next id.
BatchAfterAbort(b, e) ==
    LET c == [b EXCEPT !.pos = @ + 1, !.log = Append(@, e),
                       !.status = IF b.pos >= Len(b.ids) THEN "done" ELSE @]
    IN  CASE e.outcome = "skip" -> c
          [] e.outcome = "raise" ->
                [c EXCEPT !.errors = Append(@, FormatError(e.id, "OverflowError")),
                          !.status = "done"]
          [] e.outcome \in {"rule", "ai"} -> [c EXCEPT !.categorized = @ + 1]
          [] OTHER -> [c EXCEPT !.uncategorized = @ + 1]

\* Mutant: a missing transaction is counted as uncategorized.
BatchAfterCountMissing(b, e) ==
    LET c == [b EXCEPT !.pos = @ + 1, !.log = Append(@, e),
                       !.status = IF b.pos >= Len(b.ids) THEN "done" ELSE @]
    IN  CASE e.outcome = "raise" ->
                [c EXCEPT !.errors = Append(@, FormatError(e.id, "OverflowError"))]
          [] e.outcome \in {"rule", "ai"} -> [c EXCEPT !.categorized = @ + 1]
          [] OTHER -> [c EXCEPT !.uncategorized = @ + 1]

\* The bookkeeping of one pass: continue for a missing transaction, a counter
\* for a result, an entry of errors for an exception; then the next id, and
\* the return after the last one.
BatchAfter(b, e) ==
    LET c == [b EXCEPT !.pos = @ + 1, !.log = Append(@, e),
                       !.status = IF b.pos >= Len(b.ids) THEN "done" ELSE @]
    IN  CASE e.outcome = "skip" -> c
          [] e.outcome = "raise" ->
                [c EXCEPT !.errors = Append(@, FormatError(e.id, "OverflowError"))]
          [] e.outcome \in {"rule", "ai"} -> [c EXCEPT !.categorized = @ + 1]
          [] OTHER -> [c EXCEPT !.uncategorized = @ + 1]

----------------------------------------------------------------------------
(* csv_parser: text *)

Digits == <<"0", "1", "2", "3", "4", "5", "6", "7", "8", "9">>

IsDigit(c) == \E i \in DOMAIN Digits : Digits[i] = c

DigitVal(c) == (CHOOSE i \in DOMAIN Digits : Digits[i] = c) - 1

IsDigits(s) == Len(s) > 0 /\ \A i \in DOMAIN s : IsDigit(s[i])

\* int(s) for a string of digits.
RECURSIVE ToNat(_)
ToNat(s) ==
    IF s = <<>> THEN 0
    ELSE ToNat(SubSeq(s, 1, Len(s) - 1)) * 10 + DigitVal(s[Len(s)])

\* str(n) for n >= 0.
RECURSIVE NatStr(_)
NatStr(n) ==
    IF n < 10 THEN <<Digits[n + 1]>>
    ELSE NatStr(n \div 10) \o <<Digits[(n % 10) + 1]>>

\* s.split(sep)
RECURSIVE SplitOn(_, _)
SplitOn(s, sep) ==
    IF \A i \in DOMAIN s : s[i] # sep THEN <<s>>
    ELSE LET i == CHOOSE k \in DOMAIN s : s[k] = sep /\ \A j \in 1..(k - 1) : s[j] # sep
         IN  <<SubSeq(s, 1, i - 1)>> \o SplitOn(SubSeq(s, i + 1, Len(s)), sep)

\* s.strip()
RECURSIVE Strip(_)
Strip(s) ==
    IF s = <<>> THEN s
    ELSE IF s[1] = " " THEN Strip(Tail(s))
    ELSE IF s[Len(s)] = " " THEN Strip(SubSeq(s, 1, Len(s) - 1))
    ELSE s

\* s.replace(c, '')
Remove(s, c) == SelectSeq(s, LAMBDA x : x # c)

----------------------------------------------------------------------------
(* csv_parser: parse_date *)

\* date_formats, in the order parse_date tries them: the directives of the
\* date, their separator, and whether " %H:%M:%S" follows.
DateFormats ==
    << [fields |-> <<"Y", "m", "d">>, sep |-> "-", time |-> FALSE],
       [fields |-> <<"m", "d", "Y">>, sep |-> "/", time |-> FALSE],
       [fields |-> <<"d", "m", "Y">>, sep |-> "/", time |-> FALSE],
       [fields |-> <<"Y", "m", "d">>, sep |-> "/", time |-> FALSE],
       [fields |-> <<"m", "d", "Y">>, sep |-> "-", time |-> FALSE],
       [fields |-> <<"d", "m", "Y">>, sep |-> "-", time |-> FALSE],
       [fields |-> <<"Y", "m", "d">>, sep |-> "-", time |-> TRUE],
       [fields |-> <<"m", "d", "Y">>, sep |-> "/", time |-> TRUE] >>

\* What a directive of strptime accepts: %Y four digits, the others one or
\* two digits in the directive's range.
Directive(d, s) ==
    /\ IsDigits(s)
    /\ CASE d = "Y" -> Len(s) = 4
         [] d = "m" -> Len(s) <= 2 /\ ToNat(s) \in 1..12
         [] d = "d" -> Len(s) <= 2 /\ ToNat(s) \in 1..31
         [] d = "H" -> Len(s) <= 2 /\ ToNat(s) \in 0..23
         [] OTHER -> Len(s) <= 2 /\ ToNat(s) \in 0..59

IsLeap(y) == (y % 4 = 0 /\ y % 100 # 0) \/ y % 400 = 0

DaysIn(m, y) ==
    IF m = 2 THEN (IF IsLeap(y) THEN 29 ELSE 28)
    ELSE IF m \in {4, 6, 9, 11} THEN 30 ELSE 31

NoDate == <<>>

\* datetime.strptime(date_str, fmt): the datetime <<Y, m, d, H, M, S>>, or
\* NoDate where it raises ValueError.
Strptime(date_str, fmt) ==
    LET parts == SelectSeq(SplitOn(date_str, " "), LAMBDA x : x # <<>>)
        d == IF Len(parts) > 0 THEN SplitOn(parts[1], fmt.sep) ELSE <<>>
        t == IF Len(parts) > 1 THEN SplitOn(parts[2], ":") ELSE <<>>
        at(c) == CHOOSE i \in 1..3 : fmt.fields[i] = c
        shape == /\ Len(parts) = (IF fmt.time THEN 2 ELSE 1)
                 /\ Len(d) = 3
                 /\ \A i \in 1..3 : Directive(fmt.fields[i], d[i])
                 /\ fmt.time => /\ Len(t) = 3
                                /\ Directive("H", t[1])
                                /\ Directive("M", t[2])
                                /\ Directive("S", t[3])
    IN  IF ~shape THEN NoDate
        ELSE LET y == ToNat(d[at("Y")])
                 m == ToNat(d[at("m")])
                 dd == ToNat(d[at("d")])
             IN  IF y < 1 \/ dd > DaysIn(m, y) THEN NoDate
                 ELSE IF fmt.time
                      THEN <<y, m, dd, ToNat(t[1]), ToNat(t[2]), ToNat(t[3])>>
                      ELSE <<y, m, dd, 0, 0, 0>>

\* parse_date: the result of the first format of formats, from the i-th on,
\* that parses; NoDate where parse_date raises ValueError.
RECURSIVE ParseDateFrom(_, _, _)
ParseDateFrom(date_str, formats, i) ==
    IF i > Len(formats) THEN NoDate
    ELSE IF Strptime(date_str, formats[i]) # NoDate THEN Strptime(date_str, formats[i])
    ELSE ParseDateFrom(date_str, formats, i + 1)

\* Variant: %d/%m/%Y tried before %m/%d/%Y.
ParseDateDayFirst(date_str) ==
    ParseDateFrom(date_str,
                  <<DateFormats[1], DateFormats[3], DateFormats[2]>>
                     \o SubSeq(DateFormats, 4, Len(DateFormats)), 1)

ParseDate(date_str) == ParseDateFrom(date_str, DateFormats, 1)

----------------------------------------------------------------------------
(* csv_parser: pandas.read_csv *)

\* An uploaded file is [headers, rows]: the header line and the data lines,
\* each a sequence of cells of text; a file of no bytes has no headers.  Every
\* data line has one cell per header, and the headers are distinct when
\* lowered and stripped.
Nan == <<"n", "a", "n">>

\* Cells read_csv takes for a missing value.
NaStrings == { <<>>, <<"N", "A">> }

Unsigned(c) == IF c # <<>> /\ c[1] = "-" THEN Tail(c) ELSE c

IsIntLit(c) == IsDigits(Unsigned(c))

IsFloatLit(c) ==
    LET p == SplitOn(Unsigned(c), ".")
    IN  Len(p) = 2 /\ IsDigits(p[1]) /\ IsDigits(p[2])

\* The dtype read_csv infers for a column from its cells.
ColumnType(cells) ==
    LET present == {i \in DOMAIN cells : cells[i] \notin NaStrings}
    IN  IF \A i \in present : IsIntLit(cells[i])
        THEN (IF present = DOMAIN cells THEN "int64" ELSE "float64")
        ELSE IF \A i \in present : IsIntLit(cells[i]) \/ IsFloatLit(cells[i])
        THEN "float64"
        ELSE "object"

RECURSIVE DropTrailingZeros(_)
DropTrailingZeros(s) ==
    IF Len(s) > 1 /\ s[Len(s)] = "0" THEN DropTrailingZeros(SubSeq(s, 1, Len(s) - 1))
    ELSE s

\* str() of the value read_csv stores for a cell of a column of dtype ty: the
\* text itself in an object column, the number's shortest spelling in a
\* numeric one (exact for the short literals of the model), nan if missing.
CellStr(c, ty) ==
    IF c \in NaStrings THEN Nan
    ELSE IF ty = "object" THEN c
    ELSE LET neg == c[1] = "-"
             p == SplitOn(Unsigned(c), ".")
             whole == ToNat(p[1])
             frac == IF Len(p) = 2 THEN DropTrailingZeros(p[2]) ELSE <<"0">>
         IN  IF ty = "int64"
             THEN (IF neg /\ whole # 0 THEN <<"-">> ELSE <<>>) \o NatStr(whole)
             ELSE (IF neg THEN <<"-">> ELSE <<>>) \o NatStr(whole) \o <<".">> \o frac

Column(file, j) == [i \in DOMAIN file.rows |-> file.rows[i][j]]

\* The rows of the DataFrame as the loop reads them: str(row[col]) per cell.
DataFrame(file) ==
    [i \in DOMAIN file.rows |->
        [j \in DOMAIN file.headers |->
            CellStr(file.rows[i][j], ColumnType(Column(file, j)))]]

----------------------------------------------------------------------------
(* csv_parser: column resolution *)

column_mapping ==
    [date |-> { <<"d", "a", "t", "e">>,
          <<"t", "r", "a", "n", "s", "a", "c", "t", "i", "o", "n", " ", "d", "a", "t", "e">>,
          <<"p", "o", "s", "t", "e", "d", " ", "d", "a", "t", "e">>,
          <<"d", "a", "t", "e", " ", "p", "o", "s", "t", "e", "d">> },
     description |-> { <<"d", "e", "s", "c", "r", "i", "p", "t", "i", "o", "n">>,
          <<"m", "e", "m", "o">>,
          <<"d", "e", "t", "a", "i", "l", "s">>,
          <<"t", "r", "a", "n", "s", "a", "c", "t", "i", "o", "n">>,
          <<"p", "a", "y", "e", "e">>,
          <<"m", "e", "r", "c", "h", "a", "n", "t">> },
     amount |-> { <<"a", "m", "o", "u", "n", "t">>,
          <<"t", "r", "a", "n", "s", "a", "c", "t", "i", "o", "n", " ", "a", "m", "o", "u", "n", "t">>,
          <<"d", "e", "b", "i", "t">>,
          <<"c", "r", "e", "d", "i", "t">> }]

\* df.columns.str.lower().str.strip()
NormalizeColumns(headers) == [j \in DOMAIN headers |-> Strip(LowerStr(headers[j]))]

NoColumn == <<>>

\* The loop over df.columns from column j on: each role keeps the last
\* column found for it.
RECURSIVE ResolveFrom(_, _, _)
ResolveFrom(columns, j, found) ==
    IF j > Len(columns) THEN found
    ELSE LET col == columns[j]
         IN  ResolveFrom(columns, j + 1,
                IF col \in column_mapping.date THEN [found EXCEPT !.date_col = col]
                ELSE IF col \in column_mapping.description THEN [found EXCEPT !.desc_col = col]
                ELSE IF col \in column_mapping.amount THEN [found EXCEPT !.amount_col = col]
                ELSE found)

ResolveColumns(columns) ==
    ResolveFrom(columns, 1,
                [date_col |-> NoColumn, desc_col |-> NoColumn, amount_col |-> NoColumn])

\* row[col]
ColumnIndex(columns, col) == CHOOSE j \in DOMAIN columns : columns[j] = col

----------------------------------------------------------------------------
(* csv_parser: parse_csv_file *)

\* Decimal(s) in thousandths, for a literal [sign] digits [. digits] with at
\* most three fraction digits; ok is false where Decimal raises.
DecimalParse(s) ==
    LET signed == s # <<>> /\ s[1] \in {"-", "+"}
        body == IF signed THEN Tail(s) ELSE s
        p == SplitOn(body, ".")
        whole == IF p[1] = <<>> THEN 0 ELSE ToNat(p[1])
        frac == IF Len(p) = 2 THEN p[2] ELSE <<>>
        pad == frac \o SubSeq(<<"0", "0", "0">>, 1, 3 - Len(frac))
        good == /\ Len(p) <= 2
                /\ p[1] = <<>> \/ IsDigits(p[1])
                /\ frac = <<>> \/ (IsDigits(frac) /\ Len(frac) <= 3)
                /\ p[1] # <<>> \/ frac # <<>>
    IN  IF ~good THEN [ok |-> FALSE, value |-> 0]
        ELSE LET v == whole * 1000 + (IF pad = <<>> THEN 0 ELSE ToNat(pad))
             IN  [ok |-> TRUE, value |-> IF signed /\ s[1] = "-" THEN -v ELSE v]

\* Variant: a zero amount counted as a debit.
TransactionTypeZeroDebit(amount) == IF amount <= 0 THEN "debit" ELSE "credit"

\* transaction_type = "debit" if amount < 0 else "credit"
TransactionType(amount) == IF amount < 0 THEN "debit" ELSE "credit"

\* f"Row {row_num}: ..." with the text the message quotes, if any.
RowError(row_num, kind, text) == [row_num |-> row_num, kind |-> kind, text |-> text]

\* One pass of the loop over df.iterrows(): st is [transactions, row_errors].
ParseRow(st, row, row_num, columns, cols, account_id) ==
    LET date_str == Strip(row[ColumnIndex(columns, cols.date_col)])
        date == ParseDate(date_str)
        description == Strip(row[ColumnIndex(columns, cols.desc_col)])
        amount_raw == Strip(row[ColumnIndex(columns, cols.amount_col)])
        amount_str == Strip(Remove(Remove(amount_raw, "$"), ","))
        amount == DecimalParse(amount_str)
    IN  IF \A j \in DOMAIN row : row[j] = Nan THEN st
        ELSE IF date_str = Nan \/ date_str = <<>>
             THEN [st EXCEPT !.row_errors =
                      Append(@, RowError(row_num, "Missing date value", <<>>))]
        ELSE IF date = NoDate
             THEN [st EXCEPT !.row_errors =
                      Append(@, RowError(row_num, "Unable to parse date: ", date_str))]
        ELSE IF description = <<>> \/ description = Nan
             THEN [st EXCEPT !.row_errors =
                      Append(@, RowError(row_num, "Missing description value", <<>>))]
        ELSE IF amount_raw = Nan \/ amount_raw = <<>>
             THEN [st EXCEPT !.row_errors =
                      Append(@, RowError(row_num, "Missing amount value", <<>>))]
        ELSE IF ~amount.ok
             THEN [st EXCEPT !.row_errors =
                      Append(@, RowError(row_num, "Invalid amount", amount_str))]
        ELSE [st EXCEPT !.transactions = Append(@,
                [account_id |-> account_id, date |-> date, description |-> description,
                 amount |-> amount.value,
                 transaction_type |-> TransactionType(amount.value)])]

\* The loop over the rows of the DataFrame from row i on; the first data row
\* is row 2 of the file.
RECURSIVE ParseRows(_, _, _, _, _, _)
ParseRows(st, df, i, columns, cols, account_id) ==
    IF i > Len(df) THEN st
    ELSE ParseRows(ParseRow(st, df[i], i + 1, columns, cols, account_id),
                   df, i + 1, columns, cols, account_id)

\* Variant: the error without the list of columns found.
ParseErrorWithoutColumns(kind, columns, errors, more) ==
    [kind |-> kind, columns |-> <<>>, errors |-> errors, more |-> more]

\* The ValueError parse_csv_file raises: the message, the columns it lists,
\* the row errors it quotes and the number it says remain.
ParseError(kind, columns, errors, more) ==
    [kind |-> kind, columns |-> columns, errors |-> errors, more |-> more]

NoError == ParseError("", <<>>, <<>>, 0)

\* Variant: the error quotes every row error.
NoValidRowsErrorAll(row_errors) ==
    ParseError("No valid transactions could be parsed from the CSV file.",
               <<>>, row_errors, 0)

\* The error raised when no transaction was parsed: row_errors[:5], and the
\* number of the others when there are more than 5.
NoValidRowsError(row_errors) ==
    LET k == Len(row_errors)
    IN  ParseError("No valid transactions could be parsed from the CSV file.",
                   <<>>, SubSeq(row_errors, 1, IF k < 5 THEN k ELSE 5),
                   IF k > 5 THEN k - 5 ELSE 0)

\* What the loop leaves for a file that has data rows and all three columns.
LoopResult(file, account_id) ==
    LET columns == NormalizeColumns(file.headers)
    IN  ParseRows([transactions |-> <<>>, row_errors |-> <<>>], DataFrame(file), 1,
                  columns, ResolveColumns(columns), account_id)

\* parse_csv_file(file_content, account_id): the list it returns, or the
\* error it raises.  latin-1 decodes every byte string, so decoding never
\* fails.
ParseCsvFile(file, account_id) ==
    LET columns == NormalizeColumns(file.headers)
        cols == ResolveColumns(columns)
        raise(e) == [ok |-> FALSE, transactions |-> <<>>, error |-> e]
        missing(what) == raise(ParseError(what, columns, <<>>, 0))
    IN  IF file.headers = <<>> THEN raise(ParseError("CSV file is empty.", <<>>, <<>>, 0))
        ELSE IF file.rows = <<>>
             THEN raise(ParseError("CSV file contains no data rows.", <<>>, <<>>, 0))
        ELSE IF cols.date_col = NoColumn THEN missing("CSV file is missing a 'Date' column.")
        ELSE IF cols.desc_col = NoColumn
             THEN missing("CSV file is missing a 'Description' column.")
        ELSE IF cols.amount_col = NoColumn
             THEN missing("CSV file is missing an 'Amount' column.")
        ELSE LET st == LoopResult(file, account_id)
             IN  IF Len(st.transactions) = 0 THEN raise(NoValidRowsError(st.row_errors))
                 ELSE [ok |-> TRUE, transactions |-> st.transactions, error |-> NoError]

----------------------------------------------------------------------------
(* upload_transactions *)

\* A value written to the column amount Numeric(10, 2): rounded to two
\* fraction digits, ties away from zero.
StoredAmount(m) ==
    IF m >= 0 THEN ((m + 5) \div 10) * 10 ELSE -(((-m + 5) \div 10) * 10)

\* The duplicate query: the committed rows with the record's account, date,
\* amount and description (autoflush=False: no pending row is seen).
DedupLookup(db, account_id, rec) ==
    {i \in DOMAIN db :
        /\ db[i].account_id = account_id
        /\ db[i].date = rec.date
        /\ db[i].amount = rec.amount
        /\ db[i].description = rec.description}

\* Transaction(user_id=current_user.id, **trans_data)
NewTransaction(uid, rec) ==
    [user_id |-> uid, account_id |-> rec.account_id, category_id |-> NoCategory,
     date |-> rec.date, description |-> rec.description, amount |-> rec.amount,
     transaction_type |-> rec.transaction_type, is_categorized |-> FALSE]

\* Variant: the overwrite that also resets the category.
OverwriteWithCategory(t, rec) ==
    [t EXCEPT !.account_id = rec.account_id, !.date = rec.date,
              !.description = rec.description, !.amount = rec.amount,
              !.transaction_type = rec.transaction_type,
              !.category_id = NoCategory, !.is_categorized = FALSE]

\* for key, value in trans_data.items(): setattr(existing, key, value)
Overwrite(t, rec) ==
    [t EXCEPT !.account_id = rec.account_id, !.date = rec.date,
              !.description = rec.description, !.amount = rec.amount,
              !.transaction_type = rec.transaction_type]

\* The state of the import loop; faults are the records for which the
\* duplicate query raises before it reaches the database.
ImportStart(s) ==
    [sess |-> s, pending |-> <<>>, created |-> 0, updated |-> 0, errors |-> <<>>,
     faults |-> {}]

\* Variant: the pass whose except clause records nothing.
ImportRecordSilent(st, db, uid, account_id, rec) ==
    LET found == DedupLookup(db, account_id, rec)
    IN  IF rec \in st.faults
        THEN { st }
        ELSE IF found # {}
        THEN { [st EXCEPT !.sess = (i :> Overwrite(Load(db, st.sess, i), rec)) @@ @,
                          !.updated = @ + 1] : i \in found }
        ELSE { [st EXCEPT !.pending = Append(@, NewTransaction(uid, rec)),
                          !.created = @ + 1] }

\* One pass of the import loop; .first() returns any of the rows found.
ImportRecord(st, db, uid, account_id, rec) ==
    LET found == DedupLookup(db, account_id, rec)
    IN  IF rec \in st.faults
        THEN { [st EXCEPT !.errors = Append(@, <<"Error importing transaction: ", rec>>)] }
        ELSE IF found # {}
        THEN { [st EXCEPT !.sess = (i :> Overwrite(Load(db, st.sess, i), rec)) @@ @,
                          !.updated = @ + 1] : i \in found }
        ELSE { [st EXCEPT !.pending = Append(@, NewTransaction(uid, rec)),
                          !.created = @ + 1] }

\* The import loop over parsed_transactions from record i on.
RECURSIVE ImportLoop(_, _, _, _, _, _)
ImportLoop(st, db, uid, account_id, recs, i) ==
    IF i > Len(recs) THEN {st}
    ELSE UNION { ImportLoop(n, db, uid, account_id, recs, i + 1) :
                   n \in ImportRecord(st, db, uid, account_id, recs[i]) }

\* db.commit() after the loop: the modified rows are updated and the pending
\* rows inserted in the order they were added, each with the next id.
CommitImport(db, st) ==
    LET stored(t) == [t EXCEPT !.amount = StoredAmount(@)]
    IN  [i \in 1..(Len(db) + Len(st.pending)) |->
            IF i > Len(db) THEN stored(st.pending[i - Len(db)])
            ELSE IF i \in DOMAIN st.sess THEN stored(st.sess[i])
            ELSE db[i]]

RECURSIVE Descending(_)
Descending(S) ==
    IF S = {} THEN <<>>
    ELSE LET m == CHOOSE x \in S : \A y \in S : y <= x
         IN  <<m>> \o Descending(S \ {m})

\* The ids handed to categorize_batch: the created_count highest ids among
\* the user's uncategorized transactions of the account.
NewTransactionIds(db, uid, account_id, created_count) ==
    LET all == Descending({i \in DOMAIN db :
                              /\ db[i].user_id = uid
                              /\ db[i].account_id = account_id
                              /\ db[i].is_categorized = FALSE})
    IN  SubSeq(all, 1, IF created_count < Len(all) THEN created_count ELSE Len(all))

\* Variant: the query without the filter on the user.
AccountOfAnyUser(uid, account_id) == {acc \in Accounts : acc.id = account_id}

\* The query of the account with this id that belongs to the user.
AccountOf(uid, account_id) ==
    {acc \in Accounts : acc.id = account_id /\ acc.user_id = uid}

----------------------------------------------------------------------------
(* Uploaded files *)

File(headers, rows) == [headers |-> headers, rows |-> rows]

UploadHeaders == << <<"D", "a", "t", "e">>, <<"D", "e", "s", "c", "r", "i", "p", "t", "i", "o", "n">>, <<"A", "m", "o", "u", "n", "t">> >>

\* Data lines of the uploaded files: amounts -5.555 and -5.56, and a line
\* whose date no format parses.
UploadRows ==
    { << <<"2", "0", "2", "4", "-", "0", "1", "-", "1", "5">>, <<"A", "b">>, <<"-", "5", ".", "5", "5", "5">> >>,
      << <<"2", "0", "2", "4", "-", "0", "1", "-", "1", "5">>, <<"b", "a">>, <<"-", "5", ".", "5", "6">> >>,
      << <<"1", "3", "/", "1", "3", "/", "2", "0", "2", "4">>, <<"A", "b">>, <<"-", "5", ".", "5", "6">> >> }

\* The files of at most MaxRows data lines, the file of none included, the
\* file of no bytes, and a file without an amount column.
UploadFiles ==
    { File(UploadHeaders, r) : r \in SeqsUpTo(UploadRows, MaxRows) }
    \cup { File(<<>>, <<>>),
           File(<< <<"D", "a", "t", "e">>, <<"D", "e", "s", "c", "r", "i", "p", "t", "i", "o", "n">> >>, << << <<"2", "0", "2", "4", "-", "0", "1", "-", "1", "5">>, <<"A", "b">> >> >>) }

AccountIds == {acc.id : acc \in Accounts}

\* parse_csv_file tabulated over the uploaded files and the accounts.
ParsedUpload ==
    [file \in UploadFiles |-> [account_id \in AccountIds |-> ParseCsvFile(file, account_id)]]

\* The row errors the loop of parse_csv_file had collected when it returned.
UploadRowErrors ==
    [file \in UploadFiles |->
        [account_id \in AccountIds |->
            IF ParseCsvFile(file, account_id).ok
            THEN LoopResult(file, account_id).row_errors ELSE <<>>]]

----------------------------------------------------------------------------
(* Calls of the parser on its own *)

\* A call: the function, its argument, and once it has returned (done) what
\* it returned or raised, with the state its loop had reached.
Call(fn, file, date_str) ==
    [fn |-> fn, file |-> file, date_str |-> date_str, done |-> FALSE,
     result |-> [ok |-> FALSE, transactions |-> <<>>, error |-> NoError],
     loop |-> [transactions |-> <<>>, row_errors |-> <<>>],
     cols |-> ResolveColumns(<<>>), date |-> NoDate]

NoCall == Call("", File(<<>>, <<>>), <<>>)

\* Date strings: two numbers and a year in either order, with / or -, with
\* or without a time, and strings that are no date.
DateNumbers == { <<"2">>, <<"0", "4">>, <<"1", "3">>, <<"2", "9">>, <<"3", "1">> }

DateYears == { <<"2", "0", "2", "4">>, <<"2", "0", "2", "3">> }

DateStrings ==
    { IF yearFirst THEN y \o <<sep>> \o a \o <<sep>> \o b \o time
      ELSE a \o <<sep>> \o b \o <<sep>> \o y \o time :
        a \in DateNumbers, b \in DateNumbers, y \in DateYears, sep \in {"/", "-"},
        yearFirst \in BOOLEAN, time \in { <<>>, <<" ", "1", "0", ":", "3", "0", ":", "0", "0">> } }
    \cup { <<>>, <<"J", "a", "n", " ", "5">>, <<"2", "0", "2", "4", "0", "1", "1", "5">> }

\* Data lines under the header line Date, Description, Amount.
ParseGoodRows ==
    { << <<"2", "0", "2", "4", "-", "0", "1", "-", "1", "5">>, <<"0", "0", "7">>, <<"-", "5", ".", "5", "0">> >>,
      << <<"3", "/", "4", "/", "2", "0", "2", "4">>, <<"A", "b">>, <<"3", "0", "0", "0", ".", "0", "0">> >>,
      << <<"2", "0", "2", "4", "-", "0", "1", "-", "1", "5", " ", "1", "0", ":", "3", "0", ":", "0", "0">>, <<"b", "a">>, <<"0">> >>,
      << <<"1", "3", "/", "4", "/", "2", "0", "2", "4">>, <<" ", "b", "a", " ">>, <<"$", "1", ",", "0", "0", "0", ".", "5", "0">> >> }

ParseBadRows ==
    { << <<"1", "3", "/", "1", "3", "/", "2", "0", "2", "4">>, <<"A", "b">>, <<"-", "5", ".", "5", "6">> >>,
      << <<"2", "0", "2", "4", "-", "0", "1", "-", "1", "5">>, <<"b", "a">>, <<"x">> >>,
      << <<>>, <<"A", "b">>, <<"1">> >> }

ParseOtherRows ==
    { << <<"2", "0", "2", "4", "-", "0", "1", "-", "1", "5">>, <<>>, <<"1">> >>,
      << <<"2", "0", "2", "4", "-", "0", "1", "-", "1", "5">>, <<"N", "A">>, <<>> >>,
      << <<>>, <<>>, <<>> >> }

\* Files of at most MaxRows data lines of any kind.
RowFiles ==
    { File(UploadHeaders, r) :
        r \in SeqsUpTo(ParseGoodRows \cup ParseBadRows \cup ParseOtherRows, MaxRows) }

\* Files of at most MaxErrorRows data lines every one of which fails.
ErrorFiles == { File(UploadHeaders, r) : r \in SeqsUpTo(ParseBadRows, MaxErrorRows) }

\* Header cells, distinct when lowered and stripped, and the cell a data
\* line has under each.
HeaderCells ==
    { <<"D", "a", "t", "e">>, <<"P", "o", "s", "t", "e", "d", " ", "D", "a", "t", "e">>, <<"M", "e", "m", "o">>, <<"D", "e", "b", "i", "t">>,
      <<"C", "r", "e", "d", "i", "t">>, <<" ", "A", "M", "O", "U", "N", "T", " ">>, <<"B", "a", "l", "a", "n", "c", "e">> }

CellUnder(h) ==
    CASE h = <<"D", "a", "t", "e">> -> <<"2", "0", "2", "4", "-", "0", "1", "-", "1", "5">>
      [] h = <<"P", "o", "s", "t", "e", "d", " ", "D", "a", "t", "e">> -> <<"3", "/", "4", "/", "2", "0", "2", "4">>
      [] h = <<"M", "e", "m", "o">> -> <<"A", "b">>
      [] h = <<"D", "e", "b", "i", "t">> -> <<"-", "5", ".", "5", "0">>
      [] h = <<"C", "r", "e", "d", "i", "t">> -> <<"3", "0", "0", "0", ".", "0", "0">>
      [] h = <<" ", "A", "M", "O", "U", "N", "T", " ">> -> <<"0">>
      [] OTHER -> <<"9">>

\* Files of one data line whose header line is any arrangement of at most
\* MaxColumns of the header cells; the file of no bytes is among them.
HeaderFiles ==
    { File(hs, IF hs = <<>> THEN <<>> ELSE << [j \in DOMAIN hs |-> CellUnder(hs[j])] >>) :
        hs \in { h \in SeqsUpTo(HeaderCells, MaxColumns) :
                    \A i, j \in DOMAIN h : i # j => h[i] # h[j] } }

ParseFiles == RowFiles \cup ErrorFiles \cup HeaderFiles

----------------------------------------------------------------------------
(* Requests *)

\* Optional[int] and Optional[str]: None, or a value.
NoInt == [given |-> FALSE, value |-> 0]

NoStr == [given |-> FALSE, value |-> <<>>]

NoIds == [given |-> FALSE, value |-> <<>>]

Some(v) == [given |-> TRUE, value |-> v]

\* The arguments of a request: the fields a function does not take keep the
\* values of NoArgs.
NoArgs ==
    [id |-> 0, account_id |-> 0, category_id |-> NoInt, description |-> NoStr,
     transaction_ids |-> NoIds, use_ai |-> FALSE, ai |-> [kind |-> "raise", text |-> <<>>]]

\* A request: the function, the caller, the arguments, and once answered
\* (done) the status and what the function returned.
Request(fn, uid, args) ==
    [fn |-> fn, user_id |-> uid, args |-> args, done |-> FALSE, status |-> 0,
     returned |-> NoCategory, n |-> 0]

NoRequest == Request("", 0, NoArgs)

\* What the LLM can answer when asked on its own: the answers of AIOutcomes,
\* and texts that hold a wildcard of LIKE.
AIAnswers ==
    AIOutcomes \cup {[kind |-> "text", text |-> t] : t \in { <<"f", "_">>, <<"%">> }}

----------------------------------------------------------------------------
(* Actions *)

\* Variant: the detail without the parser's message.
DetailWithoutError(text, e) == [text |-> text, error |-> NoError]

\* detail of the HTTPException, or of no exception.
Detail(text, e) == [text |-> text, error |-> e]

\* What the model keeps of one upload request and its response; row_errors
\* is what the parser's loop had collected when it returned.
UploadRecord(uid, account_id, file, recs, row_errors, status, detail, st, empty_before, returned) ==
    [user_id |-> uid, account_id |-> account_id, file |-> file, recs |-> recs,
     row_errors |-> row_errors,
     status |-> status, detail |-> detail, created |-> st.created,
     updated |-> st.updated, errors |-> st.errors, empty_before |-> empty_before,
     returned |-> returned]

\* POST /api/transactions/upload, where faults are the parsed records whose
\* duplicate query raises.
UploadWith(uid, account_id, file, auto_categorize, faults) ==
    LET parsed == ParsedUpload[file][account_id]
        recs == parsed.transactions
        empty_before == \A i \in DOMAIN txs : txs[i].account_id # account_id
    IN
    /\ batch.status # "running"
    /\ Len(uploads) < MaxUploads
    /\ IF AccountOf(uid, account_id) = {}
       THEN /\ uploads' = Append(uploads,
                    UploadRecord(uid, account_id, File(<<>>, <<>>), <<>>, <<>>, 404,
                                 Detail("Account not found", NoError),
                                 ImportStart(sess), FALSE, TRUE))
            /\ UNCHANGED <<txs, sess, batch>>
       ELSE IF ~parsed.ok
       THEN /\ uploads' = Append(uploads,
                    UploadRecord(uid, account_id, file, <<>>, <<>>, 400,
                                 Detail("Error parsing CSV: ", parsed.error),
                                 ImportStart(sess), empty_before, TRUE))
            /\ UNCHANGED <<txs, sess, batch>>
       ELSE \E st \in ImportLoop([ImportStart(sess) EXCEPT !.faults = faults], txs, uid,
                                account_id, recs, 1) :
              LET db == CommitImport(txs, st)
                  ids == NewTransactionIds(db, uid, account_id, st.created)
                  categorize == auto_categorize /\ st.created > 0
                  b == IF categorize THEN StartBatch(batch, ids, TRUE, "upload")
                       ELSE batch
              IN  /\ txs' = db
                  /\ sess' = NoSession
                  /\ batch' = b
                  /\ uploads' = Append(uploads,
                        UploadRecord(uid, account_id, file, recs,
                                     UploadRowErrors[file][account_id], 200,
                                     Detail("", NoError), st, empty_before,
                                     ~categorize \/ b.status = "done"))
    /\ UNCHANGED <<rules, apiKey, csv, req, inflight>>

\* POST /api/transactions/upload with no query that raises.
Upload(uid, account_id, file, auto_categorize) ==
    UploadWith(uid, account_id, file, auto_categorize, {})

\* categorize_batch(transaction_ids, db, use_ai) called with a list of ids.
CategorizeBatchCall(ids, use_ai) ==
    /\ batch.status = "idle"
    /\ batch' = StartBatch(batch, ids, use_ai, "direct")
    /\ UNCHANGED <<txs, sess, rules, apiKey, uploads, csv, req, inflight>>

\* One pass of the loop of categorize_batch, and its return after the last.
BatchStep ==
    /\ batch.status = "running"
    /\ LET trans_id == batch.ids[batch.pos]
       IN  IF trans_id \notin DOMAIN txs
           THEN /\ batch' = BatchAfter(batch, SkipEntry(trans_id))
                /\ UNCHANGED <<txs, sess>>
           ELSE \E order \in OrderedRules(rules, Load(txs, sess, trans_id).user_id),
                   ai \in AIOutcomes :
                  \E pick \in CategorizeWithAI(apiKey, ai) :
                     LET r == CategorizeTransaction(txs, sess, trans_id, order,
                                                    batch.use_ai, ai, pick)
                     IN  /\ txs' = r.st.db
                         /\ sess' = r.st.sess
                         /\ batch' = BatchAfter(batch, LogEntry(trans_id, r))
    /\ uploads' = IF batch'.status = "done" /\ batch.origin = "upload"
                  THEN [uploads EXCEPT ![Len(uploads)].returned = TRUE]
                  ELSE uploads
    /\ UNCHANGED <<rules, apiKey, csv, req, inflight>>

\* llm(messages) in a pass of the batch does not return: the pass has reached
\* the AI (use_ai, a key, categories, no rule decided) and waits in the call,
\* which has no timeout.
LLMNeverAnswers ==
    /\ batch.status = "running"
    /\ batch.use_ai /\ apiKey /\ Len(Categories) > 0
    /\ batch.ids[batch.pos] \in DOMAIN txs
    /\ LET t == Load(txs, sess, batch.ids[batch.pos])
       IN  \E order \in OrderedRules(rules, t.user_id) :
              RuleStep(t.description, rules, order, 1).outcome = "none"
    /\ batch' = [batch EXCEPT !.status = "waiting"]
    /\ UNCHANGED <<txs, sess, rules, apiKey, uploads, csv, req, inflight>>

\* The request is abandoned between two transactions of the batch: get_db
\* closes the Session, and what it had not committed is lost.
Abandon ==
    /\ batch.status = "running"
    /\ batch' = [batch EXCEPT !.status = "abandoned"]
    /\ sess' = NoSession
    /\ UNCHANGED <<txs, rules, apiKey, uploads, csv, req, inflight>>

\* parse_csv_file(file_content, account_id) called on its own.
ParseCsvFileCall ==
    /\ csv.fn = "parse_csv_file" /\ ~csv.done
    /\ LET cols == ResolveColumns(NormalizeColumns(csv.file.headers))
           looped == /\ csv.file.rows # <<>>
                     /\ \A c \in {cols.date_col, cols.desc_col, cols.amount_col} :
                           c # NoColumn
       IN  csv' = [csv EXCEPT
                     !.done = TRUE,
                     !.result = ParseCsvFile(csv.file, 1),
                     !.cols = cols,
                     !.loop = IF looped THEN LoopResult(csv.file, 1) ELSE @]
    /\ UNCHANGED <<txs, sess, rules, apiKey, batch, uploads, req, inflight>>

\* parse_date(date_str) called on its own.
ParseDateCall ==
    /\ csv.fn = "parse_date" /\ ~csv.done
    /\ csv' = [csv EXCEPT !.done = TRUE, !.date = ParseDate(csv.date_str)]
    /\ UNCHANGED <<txs, sess, rules, apiKey, batch, uploads, req, inflight>>

\* The request answered with status, as the n-th of the behaviour.
Answer(fn, uid, args, status) ==
    [Request(fn, uid, args) EXCEPT !.done = TRUE, !.status = status, !.n = req.n + 1]

\* Variant: the row without the assignment of is_categorized.
ManualTransactionUnflagged(uid, account_id, category_id) ==
    [user_id |-> uid, account_id |-> account_id,
     category_id |-> IF category_id.given THEN category_id.value ELSE NoCategory,
     date |-> <<2024, 1, 15, 0, 0, 0>>, description |-> <<"b", "a">>,
     amount |-> StoredAmount(-5560), transaction_type |-> "debit",
     is_categorized |-> FALSE]

\* Transaction(user_id=current_user.id, **transaction_data.dict()), with
\* is_categorized set if category_id is truthy.
ManualTransaction(uid, account_id, category_id) ==
    [user_id |-> uid, account_id |-> account_id,
     category_id |-> IF category_id.given THEN category_id.value ELSE NoCategory,
     date |-> <<2024, 1, 15, 0, 0, 0>>, description |-> <<"b", "a">>,
     amount |-> StoredAmount(-5560), transaction_type |-> "debit",
     is_categorized |-> category_id.given /\ category_id.value # 0]

\* The foreign key transactions.category_id -> categories.id: the commit of
\* a row with a category_id that is no category raises IntegrityError.
ForeignKeyFails(category_id) == category_id.given /\ ~CategoryExists(category_id.value)

\* POST /api/transactions
CreateTransaction(uid, account_id, category_id) ==
    LET args == [NoArgs EXCEPT !.account_id = account_id, !.category_id = category_id]
        status == IF AccountOf(uid, account_id) = {} THEN 404
                  ELSE IF ForeignKeyFails(category_id) THEN 500 ELSE 201
    IN  /\ batch.status # "running"
        /\ req.n + Len(uploads) < MaxRequests
        /\ req' = Answer("create_transaction", uid, args, status)
        /\ txs' = IF status = 201
                  THEN Append(txs, ManualTransaction(uid, account_id, category_id))
                  ELSE txs
        /\ UNCHANGED <<sess, rules, apiKey, batch, uploads, csv, inflight>>

\* PUT /api/transactions/{transaction_id}
UpdateTransaction(uid, transaction_id, category_id, description) ==
    LET args == [NoArgs EXCEPT !.id = transaction_id, !.category_id = category_id,
                               !.description = description]
        found == transaction_id \in DOMAIN txs /\ txs[transaction_id].user_id = uid
        status == IF ~found THEN 404 ELSE IF ForeignKeyFails(category_id) THEN 500 ELSE 200
        t1 == IF category_id.given
              THEN [txs[transaction_id] EXCEPT !.category_id = category_id.value,
                                               !.is_categorized = TRUE]
              ELSE txs[transaction_id]
        t2 == IF description.given THEN [t1 EXCEPT !.description = description.value] ELSE t1
    IN  /\ batch.status # "running"
        /\ req.n + Len(uploads) < MaxRequests
        /\ req' = Answer("update_transaction", uid, args, status)
        /\ txs' = IF status = 200 THEN [txs EXCEPT ![transaction_id] = t2] ELSE txs
        /\ UNCHANGED <<sess, rules, apiKey, batch, uploads, csv, inflight>>

\* Variant: the query without the filter on the user.
UncategorizedOfAll(db, uid) == {i \in DOMAIN db : db[i].is_categorized = FALSE}

\* The query of the caller's uncategorized transactions.
UncategorizedOf(db, uid) ==
    {i \in DOMAIN db : db[i].user_id = uid /\ db[i].is_categorized = FALSE}

\* POST /api/transactions/categorize: the check of the ids, or the query of
\* the caller's uncategorized transactions (in the order the database
\* returns them), and the call of categorize_batch.
CategorizeTransactions(uid, transaction_ids, use_ai) ==
    LET args == [NoArgs EXCEPT !.transaction_ids = transaction_ids, !.use_ai = use_ai]
        ids == transaction_ids.value
        listed == transaction_ids.given /\ ids # <<>>
        transactions == {i \in DOMAIN txs :
                            (\E k \in DOMAIN ids : ids[k] = i) /\ txs[i].user_id = uid}
        uncategorized == UncategorizedOf(txs, uid)
    IN  /\ batch.status # "running"
        /\ req.n + Len(uploads) < MaxRequests
        /\ IF listed /\ Cardinality(transactions) # Len(ids)
           THEN /\ req' = Answer("categorize_transactions", uid, args, 404)
                /\ batch' = batch
           ELSE \E ids_to_categorize \in
                      (IF listed THEN {ids} ELSE Orderings(uncategorized)) :
                   /\ req' = Answer("categorize_transactions", uid, args, 200)
                   /\ batch' = StartBatch(batch, ids_to_categorize, use_ai, "endpoint")
        /\ UNCHANGED <<txs, sess, rules, apiKey, uploads, csv, inflight>>

\* categorize_transaction(transaction, db, use_ai) called on its own for a
\* stored transaction, with the answer the LLM gives if it is asked.
CategorizeTransactionCall ==
    /\ req.fn = "categorize_transaction" /\ ~req.done
    /\ \E order \in OrderedRules(rules, Load(txs, sess, req.args.id).user_id) :
         \E pick \in CategorizeWithAI(apiKey, req.args.ai) :
            LET r == CategorizeTransaction(txs, sess, req.args.id, order,
                                           req.args.use_ai, req.args.ai, pick)
            IN  /\ txs' = r.st.db
                /\ sess' = r.st.sess
                /\ req' = [req EXCEPT !.done = TRUE,
                                      !.status = IF r.outcome = "raise" THEN 500 ELSE 200,
                                      !.returned = r.category_id]
    /\ UNCHANGED <<rules, apiKey, batch, uploads, csv, inflight>>

----------------------------------------------------------------------------
(* Specifications *)

\* The rule tables of the import specification.
ImportRuleTables == { << Rule(1, 2, <<"B">>, "starts_with", 0, TRUE) >> }

\* Imports: an empty store, then uploads with the categorization they start.
Init ==
    /\ txs = <<>>
    /\ sess = NoSession
    /\ rules \in ImportRuleTables
    /\ apiKey \in BOOLEAN
    /\ batch = NoBatch
    /\ uploads = <<>>
    /\ csv = NoCall
    /\ req = NoRequest
    /\ inflight = <<>>

Next ==
    \/ \E uid \in Users, acc \in Accounts, auto_categorize \in BOOLEAN :
          \E file \in UploadFiles : Upload(uid, acc.id, file, auto_categorize)
    \/ BatchStep
    \/ Abandon

Spec == Init /\ [][Next]_vars

\* The file whose upload filled the store of SpecCategorize.
SeedFile ==
    File(UploadHeaders,
         << << <<"2", "0", "2", "4", "-", "0", "1", "-", "1", "5">>, <<"A", "b">>, <<"-", "5", ".", "5", "6">> >>,
            << <<"2", "0", "2", "4", "-", "0", "1", "-", "1", "5">>, <<"b", "a">>, <<"-", "5", ".", "5", "6">> >> >>)

\* The store after user 1 uploaded SeedFile into account 1, without
\* auto_categorize.
SeedStore ==
    CommitImport(<<>>,
        CHOOSE st \in ImportLoop(ImportStart(NoSession), <<>>, 1, 1,
                                 ParseCsvFile(SeedFile, 1).transactions, 1) : TRUE)

\* Categorization: a store filled by uploads, any rule table, one
\* categorize_batch call over any list of ids.
InitCategorize ==
    /\ txs = SeedStore
    /\ sess = NoSession
    /\ rules \in RuleTables
    /\ apiKey \in BOOLEAN
    /\ batch = NoBatch
    /\ uploads = <<>>
    /\ csv = NoCall
    /\ req = NoRequest
    /\ inflight = <<>>

NextCategorize ==
    \/ \E use_ai \in BOOLEAN :
          \E ids \in SeqsUpTo(1..(Len(txs) + 1), MaxBatch) : CategorizeBatchCall(ids, use_ai)
    \/ BatchStep
    \/ Abandon

SpecCategorize == InitCategorize /\ [][NextCategorize]_vars

\* The parser: any file or date string, and the call that parses it.
InitParse ==
    /\ txs = <<>>
    /\ sess = NoSession
    /\ rules = <<>>
    /\ apiKey = FALSE
    /\ batch = NoBatch
    /\ uploads = <<>>
    /\ csv \in { Call("parse_csv_file", f, <<>>) : f \in ParseFiles }
           \cup { Call("parse_date", File(<<>>, <<>>), d) : d \in DateStrings }
    /\ req = NoRequest
    /\ inflight = <<>>

NextParse == ParseCsvFileCall \/ ParseDateCall

SpecParse == InitParse /\ [][NextParse]_vars

\* The rule tables of the specifications that are not about the rules: no
\* rule, or one rule of user 1 that matches the description 'ba'.
FewRuleTables == { <<>>, << Rule(1, 2, <<"B">>, "starts_with", 0, TRUE) >> }

\* The AI: a store filled by an upload, and one categorize_transaction call
\* for a stored transaction with any answer of the LLM.
InitAI ==
    /\ txs = SeedStore
    /\ sess = NoSession
    /\ rules \in FewRuleTables
    /\ apiKey \in BOOLEAN
    /\ batch = NoBatch
    /\ uploads = <<>>
    /\ csv = NoCall
    /\ req \in { Request("categorize_transaction", txs[id].user_id,
                          [NoArgs EXCEPT !.id = id, !.use_ai = use_ai, !.ai = ai]) :
                    id \in DOMAIN SeedStore, use_ai \in BOOLEAN, ai \in AIAnswers }
    /\ inflight = <<>>

NextAI == CategorizeTransactionCall

SpecAI == InitAI /\ [][NextAI]_vars

\* A batch with the AI: a store filled by an upload and one categorize_batch
\* call with use_ai = true, whose loop goes on as long as it can; the LLM
\* answers, raises, or never answers.
InitWaiting ==
    /\ txs = SeedStore
    /\ sess = NoSession
    /\ rules \in FewRuleTables
    /\ apiKey \in BOOLEAN
    /\ batch = NoBatch
    /\ uploads = <<>>
    /\ csv = NoCall
    /\ req = NoRequest
    /\ inflight = <<>>

NextWaiting ==
    \/ \E ids \in SeqsUpTo(1..(Len(txs) + 1), MaxBatch) : CategorizeBatchCall(ids, TRUE)
    \/ BatchStep
    \/ LLMNeverAnswers

SpecWaiting == InitWaiting /\ [][NextWaiting]_vars /\ WF_vars(BatchStep)

\* Files the parser accepts: one data line, and two.
AcceptedFiles ==
    { File(UploadHeaders, rows) : rows \in
        { << SeedFile.rows[2] >>,
          << << <<"2", "0", "2", "4", "-", "0", "1", "-", "1", "5">>, <<"A", "b">>, <<"-", "5", ".", "5", "5", "5">> >>,
             SeedFile.rows[2] >> } }

\* The category_id a request can carry: none, 0 (no category has it), or the
\* id of a category.
CategoryArgs == {NoInt, Some(0), Some(Categories[1].id)}

\* The account_id a request can carry: of an account, or of none.
UnknownAccount == 3
AccountArgs == AccountIds \cup {UnknownAccount}

\* All requests: a store filled by an upload, then uploads, manual creates,
\* updates and categorize requests of both users, one after the other.
InitManage ==
    /\ txs = SeedStore
    /\ sess = NoSession
    /\ rules \in ImportRuleTables
    /\ apiKey \in BOOLEAN
    /\ batch = NoBatch
    /\ uploads = <<>>
    /\ csv = NoCall
    /\ req = NoRequest
    /\ inflight = <<>>

NextManage ==
    \/ \E uid \in Users, account_id \in AccountArgs, auto_categorize \in BOOLEAN :
          \E file \in AcceptedFiles :
             /\ req.n + Len(uploads) < MaxRequests
             /\ Upload(uid, account_id, file, auto_categorize)
    \/ \E uid \in Users, account_id \in AccountArgs, category_id \in CategoryArgs :
          CreateTransaction(uid, account_id, category_id)
    \/ \E uid \in Users, category_id \in CategoryArgs :
          \E transaction_id \in 1..(Len(txs) + 1), description \in {NoStr, Some(<<"B", "a">>)} :
             UpdateTransaction(uid, transaction_id, category_id, description)
    \/ \E uid \in Users, use_ai \in BOOLEAN :
          \E transaction_ids \in {NoIds} \cup {Some(ids) : ids \in SeqsUpTo(1..(Len(txs) + 1), MaxListed)} :
             CategorizeTransactions(uid, transaction_ids, use_ai)
    \/ BatchStep

SpecManage == InitManage /\ [][NextManage]_vars

\* The uploaded files parse_csv_file rejects.
RejectedFiles == {file \in UploadFiles : \A a \in AccountIds : ~ParsedUpload[file][a].ok}

\* Rejected uploads: a store filled by an upload, then uploads of the files
\* the parser rejects and of files it accepts, with any of their duplicate
\* queries raising, and the categorization they start.
InitRejected ==
    /\ txs = SeedStore
    /\ sess = NoSession
    /\ rules \in ImportRuleTables
    /\ apiKey \in BOOLEAN
    /\ batch = NoBatch
    /\ uploads = <<>>
    /\ csv = NoCall
    /\ req = NoRequest
    /\ inflight = <<>>

NextRejected ==
    \/ \E uid \in Users, acc \in Accounts, auto_categorize \in BOOLEAN :
          \E file \in RejectedFiles \cup AcceptedFiles :
             \E faults \in SUBSET {ParsedUpload[file][acc.id].transactions[k] :
                                     k \in DOMAIN ParsedUpload[file][acc.id].transactions} :
                UploadWith(uid, acc.id, file, auto_categorize, faults)
    \/ BatchStep
    \/ Abandon

SpecRejected == InitRejected /\ [][NextRejected]_vars

----------------------------------------------------------------------------
(* Claims about the import *)

DedupKey(t) == <<t.account_id, t.date, t.amount, t.description>>

\* Two uploads of one file into one account, one right after the other, the
\* first into an account that held nothing, both answered.
Reimported(k) ==
    /\ k \in 1..(Len(uploads) - 1)
    /\ uploads[k].status = 200 /\ uploads[k + 1].status = 200
    /\ uploads[k].returned /\ uploads[k + 1].returned
    /\ uploads[k].account_id = uploads[k + 1].account_id
    /\ uploads[k].file = uploads[k + 1].file
    /\ uploads[k].empty_before

\* C1: uploading the same file twice into the same account, with nothing in
\* between, reports created = N, updated = 0 the first time and created = 0,
\* updated = N the second time, N > 0 being the number of parsed records.
C1_ReimportCounts ==
    \A k \in DOMAIN uploads :
        Reimported(k) =>
            LET N == Len(uploads[k].recs)
            IN  /\ uploads[k].created = N /\ uploads[k].updated = 0
                /\ uploads[k + 1].created = 0 /\ uploads[k + 1].updated = N

\* C2: after any sequence of uploads into accounts that start empty, no two
\* stored transactions of one account have the same (account_id, date,
\* amount, description).
C2_NoDuplicateKeys ==
    \A i, j \in DOMAIN txs : i # j => DedupKey(txs[i]) # DedupKey(txs[j])

----------------------------------------------------------------------------
(* Claims about the categorization *)

\* The active rules of user uid whose pattern matches the description.
Matching(tbl, uid, description) ==
    {i \in ActiveRules(tbl, uid) :
        MatchesPattern(description, tbl[i].pattern, tbl[i].pattern_type) = "match"}

DistinctPriorities(tbl, uid) ==
    \A i, j \in ActiveRules(tbl, uid) : i # j => tbl[i].priority # tbl[j].priority

\* The rule table with its rows stored in another order.
Reorderings(tbl) ==
    { [i \in DOMAIN tbl |-> tbl[f[i]]] : f \in Orderings(DOMAIN tbl) }

\* The passes of the loop of the batch that met a stored transaction.
Passes == {k \in DOMAIN batch.log : batch.log[k].outcome # "skip"}

PassMatching(k) ==
    Matching(rules, txs[batch.log[k].id].user_id, txs[batch.log[k].id].description)

\* C3: with pairwise distinct priorities, the category the rule step chooses
\* is that of the matching rule of highest priority (and it chooses none only
\* when no rule matches), and the result of the rule step is the same for
\* every order in which the rules are stored.
C3_HighestPriorityWins ==
    /\ \A k \in Passes :
          LET e == batch.log[k]
              uid == txs[e.id].user_id
          IN  DistinctPriorities(rules, uid) =>
                /\ e.outcome = "rule" =>
                      /\ e.rule_id \in PassMatching(k)
                      /\ \A j \in PassMatching(k) :
                            rules[j].priority <= rules[e.rule_id].priority
                      /\ e.category_id = rules[e.rule_id].category_id
                /\ e.outcome \in {"ai", "none"} => PassMatching(k) = {}
    /\ \A i \in DOMAIN txs :
          DistinctPriorities(rules, txs[i].user_id) =>
            \A tbl \in Reorderings(rules) :
              \A o \in OrderedRules(rules, txs[i].user_id),
                 p \in OrderedRules(tbl, txs[i].user_id) :
                 LET a == RuleStep(txs[i].description, rules, o, 1)
                     b == RuleStep(txs[i].description, tbl, p, 1)
                 IN  a.outcome = b.outcome /\ a.category_id = b.category_id

\* A rule decided although a matching rule of lower priority has a smaller id.
C3_Witness ==
    \E k \in Passes :
        /\ batch.log[k].outcome = "rule"
        /\ DistinctPriorities(rules, txs[batch.log[k].id].user_id)
        /\ \E j \in PassMatching(k) : j < batch.log[k].rule_id

\* C4: among the matching active rules of equal priority the one created
\* first is evaluated first, so the category chosen is that of the rule with
\* the smallest id among the matching rules of the deciding priority.
C4_TieCreatedFirst ==
    \A k \in Passes :
        LET e == batch.log[k]
            top == {j \in PassMatching(k) : rules[j].priority = rules[e.rule_id].priority}
        IN  e.outcome = "rule" =>
              \A j \in top :
                  (\A i \in top : j <= i) => e.category_id = rules[j].category_id

\* C5: if any active rule of the transaction's user matches the description,
\* categorize_transaction returns the chosen rule's category, stores it with
\* is_categorized = true, and does not invoke the AI.
C5_RuleMatchDecides ==
    \A k \in Passes :
        LET e == batch.log[k]
        IN  PassMatching(k) # {} =>
              /\ e.outcome = "rule"
              /\ e.rule_id \in PassMatching(k)
              /\ e.category_id = rules[e.rule_id].category_id
              /\ ~e.ai_invoked
              /\ txs[e.id].is_categorized
              /\ txs[e.id].category_id # NoCategory

\* The pass of the loop a step makes, when it makes one.
StepPass == batch'.log[Len(batch'.log)]

LoopPass == batch.status = "running" /\ batch'.pos = batch.pos + 1

\* C6: if no rule matches and use_ai is false or the AI yields no category,
\* categorize_transaction returns none and leaves category_id and
\* is_categorized as they were.
C6_NoMatchReturnsNone ==
    [][ (/\ LoopPass
         /\ StepPass.outcome \notin {"skip", "ai"}
         /\ Matching(rules, txs[StepPass.id].user_id, txs[StepPass.id].description) = {})
        => (StepPass.outcome = "none" /\ txs' = txs /\ sess' = sess) ]_vars

\* C7: a categorize_batch call with use_ai = false over ids of stored
\* transactions none of which any rule matches returns
\* uncategorized = len(ids), categorized = 0 and errors = [].
C7_NoRuleNoAiBatch ==
    (/\ batch.status = "done"
     /\ batch.origin = "direct"
     /\ ~batch.use_ai
     /\ \A k \in DOMAIN batch.ids : batch.ids[k] \in DOMAIN txs
     /\ \A k \in DOMAIN batch.ids :
           Matching(rules, txs[batch.ids[k]].user_id, txs[batch.ids[k]].description) = {})
    => /\ batch.uncategorized = Len(batch.ids)
       /\ batch.categorized = 0
       /\ batch.errors = <<>>

\* The entries of the log with an outcome in S, in order.
RECURSIVE PassesWith(_, _)
PassesWith(log, S) ==
    IF log = <<>> THEN <<>>
    ELSE (IF Head(log).outcome \in S THEN <<Head(log)>> ELSE <<>>)
            \o PassesWith(Tail(log), S)

\* Entry e of the log is a result that processing its id alone can give.
PossibleResult(e, use_ai) ==
    IF e.id \notin DOMAIN txs
    THEN e.outcome = "skip" /\ e.category_id = NoCategory
    ELSE \E o \in OrderedRules(rules, txs[e.id].user_id) :
           \E ai \in AIOutcomes, pick \in CategoryIds \cup {NoCategory} :
              LET r == CategorizeTransaction(txs, NoSession, e.id, o, use_ai, ai, pick)
              IN  r.outcome = e.outcome /\ r.category_id = e.category_id

\* C8: an exception raised while one id is processed adds exactly one
\* formatted entry to errors and changes no counter, and every later id of
\* the list is still processed, with a result it can have on its own.
C8_ExceptionIsolated ==
    LET log == batch.log
        raised == PassesWith(log, {"raise"})
    IN  /\ Len(log) = batch.pos - 1
        /\ batch.status = "done" => Len(log) = Len(batch.ids)
        /\ \A k \in DOMAIN log : log[k].id = batch.ids[k]
        /\ batch.errors =
              [k \in DOMAIN raised |-> FormatError(raised[k].id, "OverflowError")]
        /\ batch.categorized = Len(PassesWith(log, {"rule", "ai"}))
        /\ batch.uncategorized = Len(PassesWith(log, {"none"}))
        /\ \A k \in DOMAIN log : PossibleResult(log[k], batch.use_ai)

\* A finished batch in which an id raised and a later id was categorized.
C8_Witness ==
    /\ batch.status = "done"
    /\ \E j, k \in DOMAIN batch.log :
          /\ j < k
          /\ batch.log[j].outcome = "raise"
          /\ batch.log[k].outcome = "rule"

\* C9: an id with no stored transaction is skipped: the counters, the errors
\* and every transaction stay as they are, and the loop goes on with the next
\* id (and returns only after the last).
C9_MissingIdSkipped ==
    [][ (LoopPass /\ batch.ids[batch.pos] \notin DOMAIN txs)
        => /\ batch'.categorized = batch.categorized
           /\ batch'.uncategorized = batch.uncategorized
           /\ batch'.errors = batch.errors
           /\ txs' = txs /\ sess' = sess
           /\ batch'.ids = batch.ids
           /\ batch'.status = IF batch.pos < Len(batch.ids) THEN "running" ELSE "done" ]_vars

\* A missing id was skipped and a later id was categorized.
C9_Witness ==
    \E j, k \in DOMAIN batch.log :
        /\ j < k
        /\ batch.log[j].outcome = "skip"
        /\ batch.log[k].outcome \in {"rule", "ai"}

\* The last category a pass of the batch assigned to transaction i, if any.
RECURSIVE LastAssigned(_, _)
LastAssigned(log, i) ==
    IF log = <<>> THEN NoCategory
    ELSE LET e == log[Len(log)]
         IN  IF e.id = i /\ e.outcome \in {"rule", "ai"} THEN e.category_id
             ELSE LastAssigned(SubSeq(log, 1, Len(log) - 1), i)

\* C10: the assignment a pass makes is committed before the next id is
\* processed: whatever happens to the batch afterwards (a later id raises,
\* the batch is abandoned), the store holds it, and the Session holds
\* nothing uncommitted.
C10_CommittedPerTransaction ==
    /\ sess = NoSession
    /\ \A i \in DOMAIN txs :
          LastAssigned(batch.log, i) # NoCategory =>
              /\ txs[i].is_categorized
              /\ txs[i].category_id = LastAssigned(batch.log, i)

\* A batch abandoned after it categorized a transaction, with ids left.
C10_Witness ==
    /\ batch.status = "abandoned"
    /\ batch.pos <= Len(batch.ids)
    /\ \E k \in DOMAIN batch.log : batch.log[k].outcome \in {"rule", "ai"}

----------------------------------------------------------------------------
(* Claims about the parser and the import result *)

\* C11: the response of a successful upload carries, in row order, the row
\* errors the parser collected for the file's failing rows.
C11_RowErrorsReturned ==
    \A k \in DOMAIN uploads :
        uploads[k].status = 200 => uploads[k].errors = uploads[k].row_errors

\* A call of parse_csv_file that has returned after its loop ran.
Looped ==
    /\ csv.fn = "parse_csv_file" /\ csv.done
    /\ csv.file.rows # <<>>
    /\ \A c \in {csv.cols.date_col, csv.cols.desc_col, csv.cols.amount_col} : c # NoColumn

\* The file without its i-th data line.
WithoutRow(file, i) ==
    File(file.headers, SubSeq(file.rows, 1, i - 1) \o SubSeq(file.rows, i + 1, Len(file.rows)))

\* The date cell of the i-th data line holds text that no format parses.
BadDateRow(file, i) ==
    LET cell == file.rows[i][ColumnIndex(NormalizeColumns(file.headers), csv.cols.date_col)]
    IN  Strip(cell) \notin NaStrings /\ ParseDate(Strip(cell)) = NoDate

\* C12: a data row whose date no format parses adds exactly one row error
\* and no record, and the records of the other rows are those of the file
\* without that row.
C12_BadDateRowIsolated ==
    Looped =>
        \A i \in DOMAIN csv.file.rows :
            BadDateRow(csv.file, i) =>
                LET other == LoopResult(WithoutRow(csv.file, i), 1)
                IN  /\ csv.loop.transactions = other.transactions
                    /\ Len(csv.loop.row_errors) = Len(other.row_errors) + 1

\* C13: when the loop leaves no record, parse_csv_file raises the error
\* that quotes the first min(5, k) of the k row errors in row order and, when
\* k > 5, states k - 5 as the number of the others; it returns no records.
C13_NoValidRows ==
    (Looped /\ csv.loop.transactions = <<>>) =>
        LET k == Len(csv.loop.row_errors)
            e == csv.result.error
        IN  /\ ~csv.result.ok
            /\ csv.result.transactions = <<>>
            /\ e.kind = "No valid transactions could be parsed from the CSV file."
            /\ Len(e.errors) = (IF k < 5 THEN k ELSE 5)
            /\ \A i \in DOMAIN e.errors : e.errors[i] = csv.loop.row_errors[i]
            /\ k > 5 => e.more = k - 5
            /\ k <= 5 => e.more = 0

\* A file of more than five data lines, all failing, was parsed.
C13_Witness ==
    /\ Looped
    /\ csv.loop.transactions = <<>>
    /\ Len(csv.loop.row_errors) > 5
    /\ csv.result.error.more > 0

\* The response of the upload request a step has just answered.
Answered == uploads'[Len(uploads')]

\* A step that answers an upload request.
UploadStep == Len(uploads') = Len(uploads) + 1

\* C14: an upload of one parsed record that no stored transaction of the
\* account matches in (account_id, date, amount, description) inserts exactly
\* one transaction, with the uploading user, the record's fields,
\* is_categorized = false and no category, and counts one create; when a
\* stored transaction matches, it inserts nothing, the matching transaction
\* has the record's fields, and it counts one update.
C14_InsertOrOverwrite ==
    [][ (UploadStep /\ Answered.status = 200 /\ Len(Answered.recs) = 1)
        => LET rec == Answered.recs[1]
               same == {i \in DOMAIN txs : DedupKey(txs[i]) = DedupKey(rec)}
           IN  IF same = {}
               THEN /\ Len(txs') = Len(txs) + 1
                    /\ \A i \in DOMAIN txs : txs'[i] = txs[i]
                    /\ \E t \in {txs'[Len(txs')]} :
                          /\ t.user_id = Answered.user_id
                          /\ t.account_id = rec.account_id /\ t.date = rec.date
                          /\ t.description = rec.description /\ t.amount = rec.amount
                          /\ t.transaction_type = rec.transaction_type
                          /\ t.category_id = NoCategory
                          /\ t.is_categorized = FALSE
                    /\ Answered.created = 1 /\ Answered.updated = 0
               ELSE /\ Len(txs') = Len(txs)
                    /\ \A i \in same : txs'[i].transaction_type = rec.transaction_type
                    /\ Answered.created = 0 /\ Answered.updated = 1 ]_vars

\* C15: every record parse_csv_file returns is a debit when its amount is
\* below zero and a credit when its amount is zero or above.
C15_TypeFollowsSign ==
    (csv.fn = "parse_csv_file" /\ csv.done /\ csv.result.ok) =>
        \A i \in DOMAIN csv.result.transactions :
            LET t == csv.result.transactions[i]
            IN  /\ t.amount < 0 => t.transaction_type = "debit"
                /\ t.amount >= 0 => t.transaction_type = "credit"

\* The rows -5.50 and 3000.00 came back as a debit and a credit.
C15_Witness ==
    /\ csv.fn = "parse_csv_file" /\ csv.done /\ csv.result.ok
    /\ \E i, j \in DOMAIN csv.result.transactions :
          LET t == csv.result.transactions[i]
              u == csv.result.transactions[j]
          IN  /\ t.amount = -5500 /\ t.transaction_type = "debit"
              /\ u.amount = 3000000 /\ u.transaction_type = "credit"

\* C16: the header resolved for each of the roles date, description and
\* amount is the same for every arrangement of the file's columns, and the
\* same with the columns no role recognizes left out.
Recognized(col) ==
    col \in column_mapping.date \cup column_mapping.description \cup column_mapping.amount

C16_ResolutionOrderFree ==
    (csv.fn = "parse_csv_file" /\ csv.done) =>
        LET headers == csv.file.headers
        IN  /\ \A f \in Orderings(DOMAIN headers) :
                  ResolveColumns(NormalizeColumns(
                      [j \in DOMAIN headers |-> headers[f[j]]])) = csv.cols
            /\ ResolveColumns(SelectSeq(NormalizeColumns(headers), Recognized)) = csv.cols

\* The call parsed a file with a data line in which no header is a synonym
\* of the amount role.
NoAmountColumn ==
    /\ csv.fn = "parse_csv_file" /\ csv.done
    /\ csv.file.headers # <<>> /\ csv.file.rows # <<>>
    /\ \A j \in DOMAIN csv.file.headers :
           NormalizeColumns(csv.file.headers)[j] \notin column_mapping.amount

\* The call failed with the error that names the amount column as missing and
\* lists the headers found, and returned no record.
AmountMissingError ==
    /\ csv.result.ok = FALSE
    /\ csv.result.transactions = <<>>
    /\ csv.result.error.kind = "CSV file is missing an 'Amount' column."
    /\ csv.result.error.columns = NormalizeColumns(csv.file.headers)

\* C17 as stated: a file with data and no amount synonym among its headers
\* fails with the error naming the amount column and listing the headers.
C17_AmountNamedMissing == NoAmountColumn => AmountMissingError

\* C17: a file with data, with a date and a description column resolved and
\* no amount synonym among its headers, fails with the error naming the
\* amount column and listing the headers found, and returns no record; a
\* file with data and no amount synonym always fails without a record.
C17_AmountNamedMissingLast ==
    NoAmountColumn =>
        /\ csv.result.ok = FALSE /\ csv.result.transactions = <<>>
        /\ (csv.cols.date_col # NoColumn /\ csv.cols.desc_col # NoColumn)
               => AmountMissingError

C17_Witness ==
    /\ NoAmountColumn
    /\ csv.cols.date_col # NoColumn /\ csv.cols.desc_col # NoColumn
    /\ Len(csv.file.headers) = 3
    /\ AmountMissingError

\* The date a/b/yyyy read as month mo and day dy of year y, where that is a
\* date of the calendar.
ValidMonthDay(mo, dy, y) ==
    /\ IsDigits(mo) /\ Len(mo) <= 2 /\ ToNat(mo) \in 1..12
    /\ IsDigits(dy) /\ Len(dy) <= 2 /\ ToNat(dy) \in 1..DaysIn(ToNat(mo), ToNat(y))

\* C18: parse_date returns the result of the first format, in the order
\* %Y-%m-%d, %m/%d/%Y, %d/%m/%Y, %Y/%m/%d, %m-%d-%Y, %d-%m-%Y and then the two
\* with a time, that parses the string, and fails when none does; a string
\* a/b/yyyy valid as month a, day b is read so, and is read as day a, month b
\* only when it is not.
C18_FirstFormatWins ==
    (csv.fn = "parse_date" /\ csv.done) =>
        LET parsing == {i \in DOMAIN DateFormats :
                           Strptime(csv.date_str, DateFormats[i]) # NoDate}
            first == CHOOSE i \in parsing : \A k \in parsing : i <= k
            p == SplitOn(csv.date_str, "/")
        IN  /\ [i \in 1..6 |-> <<DateFormats[i].fields, DateFormats[i].sep>>]
                  = << <<<<"Y", "m", "d">>, "-">>, <<<<"m", "d", "Y">>, "/">>,
                       <<<<"d", "m", "Y">>, "/">>, <<<<"Y", "m", "d">>, "/">>,
                       <<<<"m", "d", "Y">>, "-">>, <<<<"d", "m", "Y">>, "-">> >>
            /\ \A i \in DOMAIN DateFormats : DateFormats[i].time <=> i > 6
            /\ IF parsing = {} THEN csv.date = NoDate
                ELSE csv.date = Strptime(csv.date_str, DateFormats[first])
            /\ (Len(p) = 3 /\ IsDigits(p[3]) /\ Len(p[3]) = 4) =>
                  IF ValidMonthDay(p[1], p[2], p[3])
                  THEN csv.date = <<ToNat(p[3]), ToNat(p[1]), ToNat(p[2]), 0, 0, 0>>
                  ELSE IF ValidMonthDay(p[2], p[1], p[3])
                  THEN csv.date = <<ToNat(p[3]), ToNat(p[2]), ToNat(p[1]), 0, 0, 0>>
                  ELSE csv.date = NoDate

\* 2/04/2024, valid in both readings, was read as the fourth of February.
C18_Witness ==
    /\ csv.fn = "parse_date" /\ csv.done
    /\ csv.date_str = <<"2", "/", "0", "4", "/", "2", "0", "2", "4">>
    /\ Strptime(csv.date_str, DateFormats[3]) = <<2024, 4, 2, 0, 0, 0>>
    /\ csv.date = <<2024, 2, 4, 0, 0, 0>>

\* C19: an upload to an account of the user whose file parse_csv_file
\* rejects is answered 400 with "Error parsing CSV: " and the parser's error,
\* and leaves the stored transactions, the session and the categorization
\* untouched.
C19_ParseFailureAborts ==
    [][ (UploadStep /\ Answered.status # 404
           /\ ~ParseCsvFile(Answered.file, Answered.account_id).ok) =>
          /\ Answered.status = 400
          /\ Answered.detail.text = "Error parsing CSV: "
          /\ Answered.detail.error = ParseCsvFile(Answered.file, Answered.account_id).error
          /\ Answered.detail.error # NoError
          /\ Answered.recs = <<>>
          /\ txs' = txs /\ sess' = sess /\ batch' = batch ]_vars

\* After an import that stored transactions, an upload of a file without a
\* valid row was answered 400.
C19_Witness ==
    /\ Len(uploads) = 2
    /\ uploads[1].status = 200 /\ txs # <<>>
    /\ uploads[2].status = 400
    /\ uploads[2].detail.error.kind
          = "No valid transactions could be parsed from the CSV file."

----------------------------------------------------------------------------
(* Claims about malformed regex rules *)

\* The rule table with every regex rule whose pattern does not compile
\* removed.
WellFormedRules(tbl) ==
    SelectSeq(tbl, LAMBDA r : r.pattern_type # "regex" \/ RegexCompile(r.pattern) = "ok")

\* C20: no pass of categorize_transaction raises, and every pass has the
\* result of the rule step, a rule's category or none, that it can have with
\* the malformed regex rules removed from the table.
C20_MalformedRegexIgnored ==
    \A k \in Passes :
        LET e == batch.log[k]
            wf == WellFormedRules(rules)
        IN  /\ e.outcome # "raise"
            /\ \E o \in OrderedRules(wf, txs[e.id].user_id) :
                  LET rs == RuleStep(txs[e.id].description, wf, o, 1)
                  IN  IF rs.outcome = "rule"
                      THEN e.outcome = "rule" /\ e.category_id = rs.category_id
                      ELSE e.outcome \in {"ai", "none"}

----------------------------------------------------------------------------
(* Claims about the rules consulted and the AI *)

\* The rows of the rule table that are active rules of user uid.
OwnActive(tbl, uid) == SelectSeq(tbl, LAMBDA r : r.user_id = uid /\ r.is_active)

\* Rule j is inactive or of another user than uid, and matches description.
ForeignMatch(j, uid, description) ==
    /\ (~rules[j].is_active \/ rules[j].user_id # uid)
    /\ MatchesPattern(description, rules[j].pattern, rules[j].pattern_type) = "match"

\* C21: the rule that decides a pass, or raises in it, is an active rule of
\* the transaction's user, and the pass has the result of the rule step it
\* can have with every inactive rule and every rule of another user removed
\* from the table.
C21_OnlyOwnActiveRules ==
    \A k \in Passes :
        LET e == batch.log[k]
            uid == txs[e.id].user_id
            own == OwnActive(rules, uid)
        IN  /\ e.rule_id # 0 =>
                  rules[e.rule_id].is_active /\ rules[e.rule_id].user_id = uid
            /\ \E o \in OrderedRules(own, uid) :
                  LET rs == RuleStep(txs[e.id].description, own, o, 1)
                  IN  CASE rs.outcome = "rule" ->
                              e.outcome = "rule" /\ e.category_id = rs.category_id
                        [] rs.outcome = "raise" -> e.outcome = "raise"
                        [] OTHER -> e.outcome \in {"ai", "none"}

\* A pass decided by a rule although an inactive rule or a rule of another
\* user, of higher priority and another category, matches the description.
C21_Witness ==
    \E k \in Passes :
        LET e == batch.log[k]
        IN  /\ e.outcome = "rule"
            /\ \E j \in DOMAIN rules :
                  /\ ForeignMatch(j, txs[e.id].user_id, txs[e.id].description)
                  /\ rules[j].priority > rules[e.rule_id].priority
                  /\ rules[j].category_id # e.category_id

\* The call of categorize_transaction was answered.
CategorizedAlone == req.fn = "categorize_transaction" /\ req.done

\* The call reaches the AI: no rule decides, and use_ai is true.
AsksAI ==
    /\ req.args.use_ai
    /\ Matching(rules, txs[req.args.id].user_id, txs[req.args.id].description) = {}

\* The name of category cid contains text, without regard to case.
NameContains(cid, text) ==
    \E i \in DOMAIN Categories :
        /\ Categories[i].id = cid
        /\ Contains(LowerStr(Categories[i].name), LowerStr(text))

\* C23: when no rule matches and use_ai is true, the category stored and
\* returned is one whose name contains the text the LLM returned, without
\* regard to case; when no category name contains that text, none is
\* returned and the transaction stays uncategorized.
C23_AINameContains ==
    (CategorizedAlone /\ AsksAI) =>
        LET t == txs[req.args.id]
            text == req.args.ai.text
        IN  /\ req.returned # NoCategory =>
                  /\ req.args.ai.kind = "text"
                  /\ NameContains(req.returned, text)
                  /\ t.category_id = req.returned /\ t.is_categorized
            /\ (\A cid \in CategoryIds : ~NameContains(cid, text)) =>
                  /\ req.returned = NoCategory
                  /\ t.category_id = NoCategory /\ ~t.is_categorized

\* C22: a categorize_batch call with use_ai = true that has started returns:
\* whatever the LLM does for one transaction, the loop reaches the remaining
\* ids and the call ends with its result.
C22_BatchReturns == (batch.status = "running") ~> (batch.status = "done")

----------------------------------------------------------------------------
(* Claims about the stored transactions under all requests *)

\* C24: every stored transaction has is_categorized = true exactly when its
\* category_id is set.
C24_FlagMatchesCategory ==
    \A i \in DOMAIN txs : txs[i].is_categorized <=> txs[i].category_id # NoCategory

\* A transaction created with a category is stored next to one without.
C24_Witness ==
    /\ req.fn = "create_transaction" /\ req.status = 201
    /\ req.args.category_id.given
    /\ txs[Len(txs)].is_categorized
    /\ \E i \in DOMAIN txs : ~txs[i].is_categorized

\* A step that answers a request of function fn.
RequestStep(fn) == req'.fn = fn /\ req'.n = req.n + 1

\* Id i is listed in ids and is no transaction of user uid.
NotOwned(i, uid) == i \notin DOMAIN txs \/ txs[i].user_id # uid

\* C27: a categorize request changes no transaction of another user than the
\* caller: with a list in which some id is no transaction of the caller it is
\* answered 404 and starts nothing; without a list it processes exactly the
\* caller's transactions with is_categorized = false; and no pass of the
\* batch it starts changes a transaction of another user.
C27_CategorizeOwnOnly ==
    [][ /\ RequestStep("categorize_transactions") =>
             LET ids == req'.args.transaction_ids.value
                 listed == req'.args.transaction_ids.given /\ ids # <<>>
             IN  /\ txs' = txs
                 /\ (listed /\ \E k \in DOMAIN ids : NotOwned(ids[k], req'.user_id)) =>
                        req'.status = 404 /\ batch' = batch
                 /\ ~listed =>
                        /\ req'.status = 200
                        /\ Len(batch'.ids) = Cardinality(UncategorizedOf(txs, req'.user_id))
                        /\ {batch'.ids[k] : k \in DOMAIN batch'.ids}
                              = {i \in DOMAIN txs : txs[i].user_id = req'.user_id
                                                      /\ ~txs[i].is_categorized}
                 /\ req'.status = 200 =>
                        /\ batch'.origin = "endpoint"
                        /\ \A k \in DOMAIN batch'.ids : ~NotOwned(batch'.ids[k], req'.user_id)
        /\ (batch.origin = "endpoint" /\ batch.status = "running") =>
             \A i \in DOMAIN txs : txs[i].user_id # req.user_id => txs'[i] = txs[i] ]_vars

\* A categorize request without a list has categorized a transaction of the
\* caller while an uncategorized transaction of another user is stored.
C27_Witness ==
    /\ req.fn = "categorize_transactions" /\ req.status = 200
    /\ ~req.args.transaction_ids.given
    /\ batch.origin = "endpoint" /\ batch.status = "done"
    /\ \E k \in DOMAIN batch.log : batch.log[k].outcome \in {"rule", "ai"}
    /\ \E i \in DOMAIN txs : txs[i].user_id # req.user_id /\ ~txs[i].is_categorized

\* The owner of the account of a stored transaction is its user.
OwnedByAccountOwner(t) ==
    \E acc \in Accounts : acc.id = t.account_id /\ acc.user_id = t.user_id

\* Account account_id exists and is the user's.
HasAccount(uid, account_id) == [id |-> account_id, user_id |-> uid] \in Accounts

\* C28: every stored transaction has the user_id of the owner of its
\* account, and an upload or a create_transaction into an account that does
\* not exist or is another user's is answered 404 and stores nothing.
C28_StoredForAccountOwner ==
    [][ /\ \A i \in DOMAIN txs' : OwnedByAccountOwner(txs'[i])
        /\ (UploadStep /\ ~HasAccount(Answered.user_id, Answered.account_id)) =>
              Answered.status = 404 /\ txs' = txs
        /\ (RequestStep("create_transaction")
               /\ ~HasAccount(req'.user_id, req'.args.account_id)) =>
              req'.status = 404 /\ txs' = txs ]_vars

\* An upload has created a transaction and a create_transaction into an
\* account of another user or of nobody was answered 404.
C28_Witness ==
    /\ \E k \in DOMAIN uploads : uploads[k].status = 200 /\ uploads[k].created > 0
    /\ req.fn = "create_transaction" /\ req.status = 404
    /\ \A i \in DOMAIN txs : OwnedByAccountOwner(txs[i])

\* C30: a stored transaction with is_categorized = true keeps the flag and
\* a category_id in every step: a re-import that updates it, a pass of the
\* categorization with or without a match, an update_transaction.
C30_CategorizedStays ==
    [][ \A i \in DOMAIN txs :
          txs[i].is_categorized =>
             /\ i \in DOMAIN txs'
             /\ txs'[i].is_categorized
             /\ txs'[i].category_id # NoCategory ]_vars

\* update_transaction without category_id has changed the description of a
\* transaction that was categorized before.
C30_Witness ==
    /\ req.fn = "update_transaction" /\ req.status = 200
    /\ ~req.args.category_id.given /\ req.args.description.given
    /\ txs[req.args.id].is_categorized
    /\ txs[req.args.id].description = req.args.description.value

----------------------------------------------------------------------------
(* Claims about the counts of an upload *)

\* C29: in every upload that passed parsing, transactions_created +
\* transactions_updated + len(errors) is the number of parsed records.
C29_EveryRecordCounted ==
    \A k \in DOMAIN uploads :
       uploads[k].status = 200 =>
          uploads[k].created + uploads[k].updated + Len(uploads[k].errors)
             = Len(uploads[k].recs)

\* An upload of two records, one of them counted as an error and the other
\* as created or updated.
C29_Witness ==
    \E k \in DOMAIN uploads :
       /\ uploads[k].status = 200
       /\ Len(uploads[k].recs) = 2
       /\ Len(uploads[k].errors) = 1
       /\ uploads[k].created + uploads[k].updated = 1

----------------------------------------------------------------------------
(* Concurrent requests *)

\* An upload request that passed the account check and the parser, before
\* its loop: its own Session, the record the loop is at, and where the
\* handler is.  created_ids are the ids its commit gave to the rows it
\* added, ids the list it handed to categorize_batch.
InflightUpload(uid, account_id, file, auto_categorize) ==
    [user_id |-> uid, account_id |-> account_id, file |-> file,
     auto_categorize |-> auto_categorize,
     recs |-> ParseCsvFile(file, account_id).transactions,
     i |-> 1, st |-> ImportStart(NoSession), pc |-> "loop",
     created_ids |-> {}, ids |-> <<>>]

\* db.commit() of one of several sessions: the UPDATE of a modified row
\* sets the columns the loop assigned, on the row as it is stored now.
CommitInflight(db, st) ==
    LET stored(t) == [t EXCEPT !.amount = StoredAmount(@)]
    IN  [i \in 1..(Len(db) + Len(st.pending)) |->
            IF i > Len(db) THEN stored(st.pending[i - Len(db)])
            ELSE IF i \in DOMAIN st.sess THEN stored(Overwrite(db[i], st.sess[i]))
            ELSE db[i]]

\* A file with one record that the seeded store does not hold.
NewFile ==
    File(UploadHeaders,
         << << <<"2", "0", "2", "4", "-", "0", "1", "-", "1", "5">>, <<"B", "a">>, <<"-", "5", ".", "5", "6">> >> >>)

\* The files of the concurrent uploads: one record that is stored, or one
\* that is not.
ConcurrentFiles == {NewFile, File(UploadHeaders, << SeedFile.rows[2] >>)}

\* POST /api/transactions/upload up to the loop.
BeginUpload(uid, account_id, file, auto_categorize) ==
    /\ Len(inflight) < MaxInflight
    /\ AccountOf(uid, account_id) # {}
    /\ ParseCsvFile(file, account_id).ok
    /\ inflight' = Append(inflight, InflightUpload(uid, account_id, file, auto_categorize))
    /\ UNCHANGED <<txs, sess, rules, apiKey, batch, uploads, csv, req>>

\* One pass of the loop of upload k: its duplicate query reads the rows
\* committed so far.
ImportPass(k) ==
    LET u == inflight[k]
    IN  /\ u.pc = "loop"
        /\ u.i <= Len(u.recs)
        /\ \E n \in ImportRecord(u.st, txs, u.user_id, u.account_id, u.recs[u.i]) :
              inflight' = [inflight EXCEPT ![k] = [u EXCEPT !.st = n, !.i = @ + 1]]
        /\ UNCHANGED <<txs, sess, rules, apiKey, batch, uploads, csv, req>>

\* db.commit() of upload k after its loop.
CommitUpload(k) ==
    LET u == inflight[k]
    IN  /\ u.pc = "loop"
        /\ u.i > Len(u.recs)
        /\ txs' = CommitInflight(txs, u.st)
        /\ inflight' = [inflight EXCEPT ![k] =
              [u EXCEPT !.pc = "committed",
                        !.created_ids = (Len(txs) + 1)..(Len(txs) + Len(u.st.pending))]]
        /\ UNCHANGED <<sess, rules, apiKey, batch, uploads, csv, req>>

\* The rest of upload k: the query of the new ids and the call of
\* categorize_batch, one call at a time in the model.
QueryNewIds(k) ==
    LET u == inflight[k]
        categorize == u.auto_categorize /\ u.st.created > 0
        ids == NewTransactionIds(txs, u.user_id, u.account_id, u.st.created)
    IN  /\ u.pc = "committed"
        /\ batch.status # "running"
        /\ inflight' = [inflight EXCEPT ![k] =
              [u EXCEPT !.pc = "done", !.ids = IF categorize THEN ids ELSE <<>>]]
        /\ batch' = IF categorize THEN StartBatch(batch, ids, TRUE, "upload") ELSE batch
        /\ sess' = NoSession
        /\ UNCHANGED <<txs, rules, apiKey, uploads, csv, req>>

\* Concurrent requests: a store filled by an upload, then uploads whose
\* steps interleave with each other, with manual creates and with the
\* categorization they start.
InitConcurrent ==
    /\ txs = SeedStore
    /\ sess = NoSession
    /\ rules \in ImportRuleTables
    /\ apiKey = FALSE
    /\ batch = NoBatch
    /\ uploads = <<>>
    /\ csv = NoCall
    /\ req = NoRequest
    /\ inflight = <<>>

NextConcurrent ==
    \/ \E uid \in Users, account_id \in AccountIds, auto_categorize \in BOOLEAN :
          \E file \in ConcurrentFiles : BeginUpload(uid, account_id, file, auto_categorize)
    \/ \E k \in DOMAIN inflight : ImportPass(k)
    \/ \E k \in DOMAIN inflight : CommitUpload(k)
    \/ \E k \in DOMAIN inflight : QueryNewIds(k)
    \/ \E uid \in Users, account_id \in AccountIds : CreateTransaction(uid, account_id, NoInt)
    \/ BatchStep

SpecConcurrent == InitConcurrent /\ [][NextConcurrent]_vars

\* Uploads a and b sent the same file into the same account and both
\* committed, and no other request was made.
SameUploads(a, b) ==
    /\ a # b
    /\ inflight[a].file = inflight[b].file
    /\ inflight[a].account_id = inflight[b].account_id
    /\ inflight[a].pc # "loop" /\ inflight[b].pc # "loop"
    /\ req = NoRequest

\* C25: after two uploads of the same file into the same account, also when
\* their steps interleave, at most one stored transaction has the DedupKey
\* of each record of the file.
C25_OnePerDedupKey ==
    \A a, b \in DOMAIN inflight :
       SameUploads(a, b) =>
          \A r \in DOMAIN inflight[a].recs :
             Cardinality(DedupLookup(txs, inflight[a].account_id, inflight[a].recs[r])) <= 1

\* C26: the ids an upload with auto_categorize hands to categorize_batch
\* are the ids of the transactions it created, also when another request
\* committed into the account between its commit and its query, and when
\* the account holds older uncategorized transactions.
C26_IdsAreTheCreated ==
    \A k \in DOMAIN inflight :
       (inflight[k].pc = "done" /\ inflight[k].auto_categorize /\ inflight[k].st.created > 0) =>
          {inflight[k].ids[j] : j \in DOMAIN inflight[k].ids} = inflight[k].created_ids

====
